---- MODULE Spec2Model ----
(***************************************************************************)
(* The NMEA 2000 integration (custom_components/nmea2000): fast-packet     *)
(* reassembly, throttle gate and PGN filter (sensorCommon.py), the framers *)
(* and decoders of the two transports (SerialSensor.py, TCPSensor.py).     *)
(*                                                                         *)
(* Representation.  data64_hex is a hex string, two digits per byte; it is *)
(* modelled as the sequence of its bytes, so data64_hex[-2:] is the last   *)
(* element, data64_hex[-4:-2] the one before it (the empty string when the *)
(* frame has one byte), data64_hex[:-4] and data64_hex[:-2] are prefixes.  *)
(* int(s, 16) of a non-empty hex string is an unbounded integer; it is     *)
(* modelled by its canonical base-256 digits (leading zero bytes removed), *)
(* and int("", 16) raises ValueError.  A dict that the code iterates (the  *)
(* frames of an entry) keeps its insertion order, as Python's does: it is  *)
(* a sequence of <<key, value>> pairs; the other dicts are functions.      *)
(*                                                                         *)
(* The module-level names the file leaves unresolved are read as the file  *)
(* uses them: datetime.now() is the wall clock, call_process_function is   *)
(* the downstream consumer of a combined payload.                          *)
(***************************************************************************)
EXTENDS Integers, Sequences, FiniteSets, TLC

\* ------------------------------------------------------------------------
\* Bounds of the model
\* ------------------------------------------------------------------------
MaxBody == 2        \* bytes of a frame before its control byte: 0..MaxBody
MaxFC == 2          \* frame counters 0..MaxFC
MaxTime == 3        \* the clock runs from 0 to MaxTime
MinInterval == 2    \* hass.data[...]["min_interval"], a configuration value
MaxList == 2        \* an include or exclude list has 0..MaxList elements
MaxData == 10       \* a delimited frame carries 0..MaxData bytes after its id
MaxChunk == 3       \* a read returns 1..MaxChunk bytes (reader.read(100))
MaxBuffer == 6      \* the serial buffer is followed while it keeps <= MaxBuffer
MaxStream == 55     \* a TCP connection is followed for MaxStream bytes
MaxRead == 14       \* a TCP read returns 1..MaxRead bytes (reader.read(100))
MaxFailures == 6    \* failed attempts are counted up to MaxFailures
MaxText == 4        \* a string given to a parse has 0..MaxText characters
MaxField == 2       \* a field of a form or of an entry has 0..MaxField characters
MaxClock == 12      \* the clock of the sensor runs from 0 to MaxClock minutes
MaxMessages == 3    \* the hub is followed for MaxMessages messages
MaxHubClock == 2    \* while messages arrive the clock runs from 0 to MaxHubClock
MaxRounds == 2      \* update_tasks is followed for MaxRounds timeouts of its wait
MaxCounted == 1     \* messages that arrive while update_tasks is followed
MaxDelay == 1       \* seconds between Hub.__init__ and Hub.start

PGNs == {130306}
BodyBytes == {0, 2}      \* as payload bytes, and as payload lengths 0 and 2
SeqCounters == {0, 1}
FrameCounters == 0..MaxFC

\* ------------------------------------------------------------------------
\* Program constants
\* ------------------------------------------------------------------------
NoSeq == -1         \* the placeholder entry has no 'sequence_counter' key

\* Exits of process_fast_packet: the source line at which the call ends.
ExitThrottled == 29
ExitNoStart == 33
ExitRaise40 == 40
ExitMismatch == 55
ExitDuplicate == 58
ExitStored == 83
ExitRaise89 == 89
ExitEmitted == 98

VARIABLES
    fast_packet,     \* hass.data[fast_packet_key]: pgn -> entry
    last_processed,  \* hass.data[timestamp_key]["last_processed"]: pgn -> time
    now,             \* the wall clock
    frame,           \* the arguments of the last call: [pgn, data], or NoFrame
    out,             \* what that call handed to call_process_function
    exit_line,       \* where that call ended (0: no call)
    gate,            \* can_process in that call: "none", "admit", "reject"
    before,          \* the two tables as they were when that call began
    \* one sequence delivered twice (specification SpecOrder)
    ord_frames,      \* the frames of the sequence, by frame counter
    ord_a,           \* the delivery in frame-counter order
    ord_b,           \* the delivery in another order
    \* is_pgn_allowed_based_on_lists (specification SpecFilter)
    allow_args,      \* [pgn, pgn_include_list, pgn_exclude_list]
    allow_result,    \* <<>>, or <<the value returned>>
    \* process_packet of the two transports (specification SpecDecode)
    dec_input,       \* [transport, packet]: the receiver and its argument
    dec_result,      \* [done, frames]: the frames the call handed down
    \* SerialSensor.read_loop (specification SpecSerial)
    ser_buffer,      \* the local buffer
    ser_call,        \* the last pass of the outer loop, or NoPass
    \* TCPSensor.read_loop (specification SpecTcp)
    tcp_received,    \* how many bytes of the stream the reads have returned
    tcp_buffer,      \* the local buffer
    tcp_forwarded,   \* the packets given to process_packet, in order
    tcp_handed,      \* the frames process_packet gave to process_frame
    \* the reader task: serial_read or tcp_read (specification SpecTask)
    task_kind,       \* which class the instance is: "serial" or "tcp"
    task_pc,         \* the await the task is suspended at
    retry_delay,     \* SerialSensor._retry_delay, or tcp_read's retry_delay
    writer,          \* tcp_read's writer: FALSE for None
    raising,         \* tcp_read: a CancelledError is passing the finally block
    task_log,        \* what has happened to the task so far
    \* the PGN lists of the configuration (specification SpecConfig)
    cfg_call,        \* the operation and its input
    cfg_result,      \* what the operation did
    \* two instances in one process (specification SpecInstances)
    hass_data,       \* hass.data: key -> table
    inst_names,      \* the instance names in use
    inst_call,       \* the last call of process_fast_packet, or NoInstCall
    \* several senders of one PGN (specification SpecBus)
    bus_sent,        \* message -> how many of its frames have left the sender
    bus_rejected,    \* the messages whose frame 0 the throttle gate rejected
                     \* while a sequence was being collected
    \* one NMEA2000Sensor (specification SpecSensor)
    sensor,          \* the fields of the object
    sensor_pc,       \* where Home Assistant is with adding or removing it
    sensor_now,      \* datetime.now(), in minutes since the construction
    sensor_call,     \* the last call of one of its methods, or NoSensorCall
    sensor_pub,      \* the last state it scheduled for publication, or NoPublication
    \* the Hub (specifications SpecStatus, SpecHub and SpecUpdate)
    hub,             \* the fields of the object
    update_task,     \* the update_tasks coroutine: where it is, its locals
    hub_log          \* what the callbacks and the task have done so far

readervars == <<fast_packet, last_processed, now, frame, out, exit_line, gate, before>>
ordvars == <<ord_frames, ord_a, ord_b>>
filtervars == <<allow_args, allow_result>>
decodevars == <<dec_input, dec_result>>
serialvars == <<ser_buffer, ser_call>>
tcpvars == <<tcp_received, tcp_buffer, tcp_forwarded, tcp_handed>>
taskvars == <<task_kind, task_pc, retry_delay, writer, raising, task_log>>
configvars == <<cfg_call, cfg_result>>
instvars == <<hass_data, inst_names, inst_call>>
busvars == <<bus_sent, bus_rejected>>
sensorvars == <<sensor, sensor_pc, sensor_now, sensor_call, sensor_pub>>
hubvars == <<hub, update_task, hub_log>>
hostvars == <<taskvars, configvars, instvars, busvars, sensorvars, hubvars>>
corevars == <<ordvars, filtervars, decodevars, serialvars, tcpvars>>
transportvars == <<filtervars, decodevars, serialvars, tcpvars, hostvars>>
vars == <<readervars, ordvars, transportvars>>

NoFrame == [pgn |-> 0, data |-> <<>>]
NoTables == [fast_packet |-> <<>>, last_processed |-> <<>>]

\* ------------------------------------------------------------------------
\* Helpers on sequences and dictionaries
\* ------------------------------------------------------------------------
Min(S) == CHOOSE x \in S : \A y \in S : x <= y

Prefix(s, n) == IF n <= 0 THEN <<>> ELSE SubSeq(s, 1, n)

Remove(d, k) == [q \in DOMAIN d \ {k} |-> d[q]]

Put(d, k, v) == [q \in DOMAIN d \cup {k} |-> IF q = k THEN v ELSE d[q]]

RECURSIVE SumLen(_)
SumLen(payloads) ==
    IF payloads = <<>> THEN 0 ELSE Len(Head(payloads)) + SumLen(Tail(payloads))

\* an insertion-ordered dict: d[i] = <<key, value>>
DictKeys(d) == {d[i][1] : i \in DOMAIN d}

DictGet(d, k) == LET i == CHOOSE j \in DOMAIN d : d[j][1] = k IN d[i][2]

DictPut(d, k, v) ==
    IF k \in DictKeys(d)
    THEN [i \in DOMAIN d |-> IF d[i][1] = k THEN <<k, v>> ELSE d[i]]
    ELSE Append(d, <<k, v>>)

\* list(d): the keys in insertion order
RECURSIVE insertion_keys(_)
insertion_keys(d) ==
    IF d = <<>> THEN <<>> ELSE <<Head(d)[1]>> \o insertion_keys(Tail(d))

RECURSIVE SortedSeq(_)
SortedSeq(S) ==
    IF S = {} THEN <<>> ELSE LET k == Min(S) IN <<k>> \o SortedSeq(S \ {k})

\* sorted(d): the keys in ascending order
sorted_keys(d) == SortedSeq(DictKeys(d))

\* int(s, 16): the integer, as canonical base-256 digits (no leading zero byte)
RECURSIVE hex_to_int(_)
hex_to_int(s) ==
    IF Len(s) > 1 /\ Head(s) = 0 THEN hex_to_int(Tail(s))
    ELSE IF s = <<0>> THEN <<>> ELSE s

\* ------------------------------------------------------------------------
\* can_process
\* ------------------------------------------------------------------------
\* line 109 with > for >=
may_process_strict(lp, clock, pgn_id) ==
    pgn_id \notin DOMAIN lp \/ clock - lp[pgn_id] > MinInterval

\* line 109: the condition
may_process(lp, clock, pgn_id) ==
    pgn_id \notin DOMAIN lp \/ clock - lp[pgn_id] >= MinInterval

can_process(lp, clock, pgn_id) ==
    IF may_process(lp, clock, pgn_id)
    THEN [ok |-> TRUE, last_processed |-> Put(lp, pgn_id, clock)]
    ELSE [ok |-> FALSE, last_processed |-> lp]

\* ------------------------------------------------------------------------
\* combine_pgn_frames
\* ------------------------------------------------------------------------
\* lines 193-195 with the statement of line 195 turned round
RECURSIVE combine_loop_append(_, _, _)
combine_loop_append(frames, keys, combined_payload_hex) ==
    IF keys = <<>> THEN combined_payload_hex
    ELSE combine_loop_append(frames, Tail(keys),
                             combined_payload_hex \o DictGet(frames, Head(keys)))

\* lines 193-195: the loop over the keys
RECURSIVE combine_loop(_, _, _)
combine_loop(frames, keys, combined_payload_hex) ==
    IF keys = <<>> THEN combined_payload_hex
    ELSE combine_loop(frames, Tail(keys),
                      DictGet(frames, Head(keys)) \o combined_payload_hex)

\* line 193 without sorted()
frame_order_unsorted(frames) == insertion_keys(frames)

\* line 193: the order in which the frames are visited
frame_order(frames) == sorted_keys(frames)

combine_pgn_frames(pgn_data) ==
    combine_loop(pgn_data.frames, frame_order(pgn_data.frames), <<>>)

\* ------------------------------------------------------------------------
\* process_fast_packet
\* ------------------------------------------------------------------------
empty_entry ==
    [frames |-> <<>>, payload_length |-> 0, bytes_stored |-> 0,
     sequence_counter |-> NoSeq]

sequence_counter_of(last_byte) == (last_byte \div 32) % 8

frame_counter_of(last_byte) == last_byte % 32

new_entry(total_bytes, sequence_counter) ==
    [frames |-> <<>>, payload_length |-> total_bytes, bytes_stored |-> 0,
     sequence_counter |-> sequence_counter]

first_payload(data64_hex) == Prefix(data64_hex, Len(data64_hex) - 2)

next_payload(data64_hex) == Prefix(data64_hex, Len(data64_hex) - 1)

\* lines 63-67 with line 66 keyed by the whole control byte
store_frame_by_control_byte(pgn_data, frame_counter, data_payload_hex) ==
    [pgn_data EXCEPT
        !.frames = DictPut(pgn_data.frames,
                           pgn_data.sequence_counter * 32 + frame_counter,
                           data_payload_hex),
        !.bytes_stored = pgn_data.bytes_stored + Len(data_payload_hex)]

\* lines 63-67 without line 67
store_frame_no_count(pgn_data, frame_counter, data_payload_hex) ==
    [pgn_data EXCEPT
        !.frames = DictPut(pgn_data.frames, frame_counter, data_payload_hex)]

\* lines 63-67: the payload is stored and counted
store_frame(pgn_data, frame_counter, data_payload_hex) ==
    [pgn_data EXCEPT
        !.frames = DictPut(pgn_data.frames, frame_counter, data_payload_hex),
        !.bytes_stored = pgn_data.bytes_stored + Len(data_payload_hex)]

is_complete(pgn_data) == pgn_data.bytes_stored >= pgn_data.payload_length

Result(fp, lp, o, x, g) ==
    [fast_packet |-> fp, last_processed |-> lp, out |-> o, exit |-> x, gate |-> g]

\* lines 82-98: the check for completion, the emission and the removal
finish(fp, lp, g, pgn, pgn_data) ==
    LET fp2 == Put(fp, pgn, pgn_data) IN
    IF ~is_complete(pgn_data) THEN Result(fp2, lp, <<>>, ExitStored, g)
    ELSE LET combined_payload_hex == combine_pgn_frames(pgn_data) IN
         IF combined_payload_hex = <<>>
         THEN Result(fp2, lp, <<>>, ExitRaise89, g)
         ELSE Result(Remove(fp2, pgn), lp,
                     <<[pgn |-> pgn, hex |-> combined_payload_hex,
                        int |-> hex_to_int(combined_payload_hex)]>>,
                     ExitEmitted, g)

\* lines 36-50 and 63-67 without lines 46-47 (no reset of the old frames)
first_frame_keeps_frames(fp, lp, g, pgn, data64_hex, sequence_counter) ==
    IF Len(data64_hex) < 2 THEN Result(fp, lp, <<>>, ExitRaise40, g)
    ELSE LET total_bytes == data64_hex[Len(data64_hex) - 1]
             kept == [fp[pgn] EXCEPT !.payload_length = total_bytes,
                                     !.sequence_counter = sequence_counter]
             pgn_data == store_frame(kept, 0, first_payload(data64_hex))
         IN finish(fp, lp, g, pgn, pgn_data)

\* lines 36-50 and 63-67: a frame with frame counter 0
first_frame(fp, lp, g, pgn, data64_hex, sequence_counter) ==
    IF Len(data64_hex) < 2 THEN Result(fp, lp, <<>>, ExitRaise40, g)
    ELSE LET total_bytes == data64_hex[Len(data64_hex) - 1]
             pgn_data == store_frame(new_entry(total_bytes, sequence_counter),
                                     0, first_payload(data64_hex))
         IN finish(fp, lp, g, pgn, pgn_data)

\* lines 53-55 left out
same_sequence_any(pgn_data, sequence_counter) == TRUE

\* line 53: the frame belongs to the sequence of the entry
same_sequence(pgn_data, sequence_counter) ==
    sequence_counter = pgn_data.sequence_counter

\* lines 56-58 left out
already_stored_never(pgn_data, frame_counter) == FALSE

\* lines 56-58 taken by every frame
already_stored_always(pgn_data, frame_counter) == TRUE

\* line 56: the frame counter is a key of frames
already_stored(pgn_data, frame_counter) ==
    frame_counter \in DictKeys(pgn_data.frames)

\* lines 52-67: a frame with another frame counter
next_frame(fp, lp, g, pgn, data64_hex, sequence_counter, frame_counter) ==
    IF ~same_sequence(fp[pgn], sequence_counter)
    THEN Result(fp, lp, <<>>, ExitMismatch, g)
    ELSE IF already_stored(fp[pgn], frame_counter)
    THEN Result(fp, lp, <<>>, ExitDuplicate, g)
    ELSE finish(fp, lp, g, pgn,
                store_frame(fp[pgn], frame_counter, next_payload(data64_hex)))

\* line 28 without "frame_counter == 0 and"
gated_always(frame_counter) == TRUE

\* line 28: can_process is called for these frames only ("and" short-circuits)
gated(frame_counter) == frame_counter = 0

process_fast_packet(fp0, lp, clock, pgn, data64_hex) ==
    LET fp == IF pgn \notin DOMAIN fp0 THEN Put(fp0, pgn, empty_entry) ELSE fp0
        last_byte == data64_hex[Len(data64_hex)]
        sequence_counter == sequence_counter_of(last_byte)
        frame_counter == frame_counter_of(last_byte)
        cp == IF gated(frame_counter) THEN can_process(lp, clock, pgn)
              ELSE [ok |-> TRUE, last_processed |-> lp]
        g == IF ~gated(frame_counter) THEN "none"
             ELSE IF cp.ok THEN "admit" ELSE "reject"
    IN IF ~cp.ok
       THEN Result(fp, cp.last_processed, <<>>, ExitThrottled, g)
       ELSE IF frame_counter # 0 /\ fp[pgn].payload_length = 0
       THEN Result(fp, cp.last_processed, <<>>, ExitNoStart, g)
       ELSE IF frame_counter = 0
       THEN first_frame(fp, cp.last_processed, g, pgn, data64_hex,
                        sequence_counter)
       ELSE next_frame(fp, cp.last_processed, g, pgn, data64_hex,
                       sequence_counter, frame_counter)

\* ------------------------------------------------------------------------
\* The reader: frames arrive one at a time, the clock advances between them
\* ------------------------------------------------------------------------
Bodies == UNION {[1..n -> BodyBytes] : n \in 0..MaxBody}

FrameData(body, seq, fc) == body \o <<seq * 32 + fc>>

ReaderInit ==
    /\ fast_packet = <<>>
    /\ last_processed = <<>>
    /\ now = 0
    /\ frame = NoFrame
    /\ out = <<>>
    /\ exit_line = 0
    /\ gate = "none"
    /\ before = NoTables

NoDelivery == [fast_packet |-> <<>>, last_processed |-> <<>>, todo |-> {},
               order |-> <<>>, emitted |-> <<>>]

OrderIdle ==
    /\ ord_frames = <<>>
    /\ ord_a = NoDelivery
    /\ ord_b = NoDelivery

NoArgs == [pgn |-> 0, pgn_include_list |-> <<>>, pgn_exclude_list |-> <<>>]

FilterIdle ==
    /\ allow_args = NoArgs
    /\ allow_result = <<>>

NoInput == [transport |-> "none", packet |-> <<>>]
NoResult == [done |-> FALSE, frames |-> <<>>]

DecodeIdle ==
    /\ dec_input = NoInput
    /\ dec_result = NoResult

NoPass == [state |-> "idle", data |-> <<>>, before |-> <<>>,
           forwarded |-> <<>>, handed |-> <<>>]

SerialIdle ==
    /\ ser_buffer = <<>>
    /\ ser_call = NoPass

TcpIdle ==
    /\ tcp_received = 0
    /\ tcp_buffer = <<>>
    /\ tcp_forwarded = <<>>
    /\ tcp_handed = <<>>

NoLog == [stopped |-> FALSE, fresh |-> FALSE, connected |-> FALSE,
          reconnected |-> FALSE, first_of_reconnect |-> FALSE,
          waited |-> -1, cycle_delay |-> 0,
          cycle_connected |-> FALSE, failures |-> 0]

TaskIdle ==
    /\ task_kind = "none"
    /\ task_pc = "idle"
    /\ retry_delay = 0
    /\ writer = FALSE
    /\ raising = FALSE
    /\ task_log = NoLog

\* ------------------------------------------------------------------------
\* The PGN lists of the configuration.  A string is the sequence of its
\* characters.  parse_and_validate_comma_separated_integers exists twice:
\* in config_flow.py (used by the two flows and by Hub.__init__) and in
\* sensor.py (used by the async_setup_entry of sensor.py).  A key that is
\* absent from user_input or entry.data is the empty sequence <<>>, a
\* present one is <<its text>>.
\* ------------------------------------------------------------------------
\* the value of a decimal digit
digit_value == [c \in {"0", "1", "2", "3", "4", "5", "6", "7", "8", "9"} |->
                   CASE c = "0" -> 0 [] c = "1" -> 1 [] c = "2" -> 2
                     [] c = "3" -> 3 [] c = "4" -> 4 [] c = "5" -> 5
                     [] c = "6" -> 6 [] c = "7" -> 7 [] c = "8" -> 8
                     [] c = "9" -> 9]

\* str.strip()
RECURSIVE py_strip(_)
py_strip(s) ==
    IF s # <<>> /\ Head(s) = " " THEN py_strip(Tail(s))
    ELSE IF s # <<>> /\ s[Len(s)] = " "
    THEN py_strip(SubSeq(s, 1, Len(s) - 1))
    ELSE s

\* str.split(sep)
RECURSIVE py_split(_, _)
py_split(s, sep) ==
    IF \A i \in DOMAIN s : s[i] # sep THEN <<s>>
    ELSE LET at == CHOOSE i \in DOMAIN s :
                       s[i] = sep /\ \A j \in 1..(i - 1) : s[j] # sep
         IN <<SubSeq(s, 1, at - 1)>>
            \o py_split(SubSeq(s, at + 1, Len(s)), sep)

\* int(value) of a stripped string: [ok |-> FALSE] stands for ValueError
RECURSIVE py_int(_)
py_int(value) ==
    IF value = <<>> \/ value[Len(value)] \notin DOMAIN digit_value
    THEN [ok |-> FALSE, n |-> 0]
    ELSE IF Len(value) = 1
    THEN [ok |-> TRUE, n |-> digit_value[value[1]]]
    ELSE LET front == py_int(SubSeq(value, 1, Len(value) - 1))
         IN [ok |-> front.ok,
             n |-> IF front.ok
                   THEN front.n * 10 + digit_value[value[Len(value)]]
                   ELSE 0]

\* config_flow.py lines 52-62, sensor.py lines 98-110: the loop over the
\* potential integers; on_value_error is what the except clause does
RECURSIVE parse_loop(_, _, _)
parse_loop(potential_integers, validated_integers, on_value_error) ==
    IF potential_integers = <<>> THEN [raised |-> FALSE, value |-> validated_integers]
    ELSE LET value == py_strip(Head(potential_integers))
             rest == Tail(potential_integers)
         IN IF value = <<>>
            THEN parse_loop(rest, validated_integers, on_value_error)
            ELSE IF py_int(value).ok
            THEN parse_loop(rest, Append(validated_integers, py_int(value).n),
                            on_value_error)
            ELSE IF on_value_error = "raise"
            THEN [raised |-> TRUE, value |-> <<>>]
            ELSE parse_loop(rest, validated_integers, on_value_error)

\* config_flow.py lines 43-64
config_flow_parse_and_validate_comma_separated_integers(input_str) ==
    IF py_strip(input_str) = <<>> THEN [raised |-> FALSE, value |-> <<>>]
    ELSE parse_loop(py_split(input_str, ","), <<>>, "raise")

\* sensor.py lines 89-112
sensor_parse_and_validate_comma_separated_integers(input_str) ==
    IF py_strip(input_str) = <<>> THEN [raised |-> FALSE, value |-> <<>>]
    ELSE parse_loop(py_split(input_str, ","), <<>>, "log")

\* config_flow.py lines 112-126 and 164-177: the errors dictionary; "" is
\* a key that was not set
flow_errors(user_input) ==
    LET given(key) == user_input[key] # <<>>
        bad(key) ==
            given(key) /\
            config_flow_parse_and_validate_comma_separated_integers(
                user_input[key][1]).raised
    IN [pgn_include |-> IF bad("pgn_include") THEN "pgn_not_valid" ELSE "",
        pgn_exclude |-> IF given("pgn_include") /\ given("pgn_exclude")
                        THEN "include_exclude_only_one"
                        ELSE IF bad("pgn_exclude") THEN "pgn_not_valid"
                        ELSE ""]

\* len(errors) == 0
no_errors(errors) == errors.pgn_include = "" /\ errors.pgn_exclude = ""

\* entry.data.get(key, "")
entry_get(data, key) == IF data[key] = <<>> THEN <<>> ELSE data[key][1]

AisPgns == {129038, 129039, 129040, 129794, 129807, 129809, 129810, 130842,
            129793, 129797}

UnwantedPgns == {60928}

UnwantedNames == {"0x1ef00ManufacturerProprietaryFastPacketAddressed",
                  "0xef00ManufacturerProprietarySingleFrameAddressed",
                  "victronBatteryRegister"}

\* set(list)
Elems(list) == {list[i] : i \in DOMAIN list}

NoOutcome == [done |-> FALSE, raised |-> FALSE, value |-> <<>>,
              errors |-> [pgn_include |-> "", pgn_exclude |-> ""],
              written |-> FALSE, proceeded |-> FALSE,
              include |-> {}, exclude |-> {}, names |-> {}]

NoCall == [op |-> "none", pgn_include |-> <<>>, pgn_exclude |-> <<>>,
           exclude_ais |-> FALSE, experimental |-> FALSE]

ConfigIdle ==
    /\ cfg_call = NoCall
    /\ cfg_result = NoOutcome

NoInstCall == [name |-> "", pgn |-> 0, data |-> <<>>, before |-> <<>>]

InstIdle ==
    /\ hass_data = <<>>
    /\ inst_names = {}
    /\ inst_call = NoInstCall

BusIdle ==
    /\ bus_sent = <<>>
    /\ bus_rejected = {}

None == "None"

NoSensor == [ready |-> FALSE]

NoPublication == [at |-> -1, native_value |-> None, available |-> FALSE]

NoSensorCall ==
    [op |-> "none", new_state |-> None, before |-> NoSensor, scheduled |-> FALSE,
     published |-> NoPublication]

SensorIdle ==
    /\ sensor = NoSensor
    /\ sensor_pc = "none"
    /\ sensor_now = 0
    /\ sensor_call = NoSensorCall
    /\ sensor_pub = NoPublication

NoHub == [state |-> ""]
NoHubLog == [status |-> ""]
NoTask == [pc |-> "none", deadline |-> 0, last_availability_update |-> 0]

HubIdle ==
    /\ hub = NoHub
    /\ update_task = NoTask
    /\ hub_log = NoHubLog

HostIdle == TaskIdle /\ ConfigIdle /\ InstIdle /\ BusIdle /\ SensorIdle /\ HubIdle

TransportIdle == FilterIdle /\ DecodeIdle /\ SerialIdle /\ TcpIdle /\ HostIdle

Init ==
    /\ ReaderInit
    /\ OrderIdle
    /\ TransportIdle

Process(pgn, data) ==
    LET r == process_fast_packet(fast_packet, last_processed, now, pgn, data)
    IN /\ frame = NoFrame
       /\ fast_packet' = r.fast_packet
       /\ last_processed' = r.last_processed
       /\ out' = r.out
       /\ exit_line' = r.exit
       /\ gate' = r.gate
       /\ frame' = [pgn |-> pgn, data |-> data]
       /\ before' = [fast_packet |-> fast_packet, last_processed |-> last_processed]
       /\ UNCHANGED now
       /\ UNCHANGED ordvars
       /\ UNCHANGED transportvars

Receive ==
    \E pgn \in PGNs, body \in Bodies, seq \in SeqCounters, fc \in FrameCounters :
        Process(pgn, FrameData(body, seq, fc))

\* The call returns to the read loop: its arguments and locals are gone.
Return ==
    /\ frame # NoFrame
    /\ frame' = NoFrame
    /\ out' = <<>>
    /\ exit_line' = 0
    /\ gate' = "none"
    /\ before' = NoTables
    /\ UNCHANGED <<fast_packet, last_processed, now>>
    /\ UNCHANGED ordvars
    /\ UNCHANGED transportvars

Tick ==
    /\ frame = NoFrame
    /\ now < MaxTime
    /\ now' = now + 1
    /\ UNCHANGED <<fast_packet, last_processed, frame, out, exit_line, gate, before>>
    /\ UNCHANGED ordvars
    /\ UNCHANGED transportvars

Next == Receive \/ Return \/ Tick

Spec == Init /\ [][Next]_vars

\* ------------------------------------------------------------------------
\* SpecOrder: the frames of one sequence, whose payloads sum to its
\* payload_length, are fed to process_fast_packet twice from the same
\* tables: once in frame-counter order and once frame 0 first and the rest
\* in any order.
\* ------------------------------------------------------------------------
OrderPgn == CHOOSE p \in PGNs : TRUE

OrderPayloads == {<<>>, <<1>>, <<2>>, <<1, 2>>}

\* the tables a delivery starts from: empty, or a sequence left incomplete
StaleEntry(seq) ==
    [frames |-> <<<<0, <<>>>>, <<1, <<2>>>>>>, payload_length |-> 2,
     bytes_stored |-> 1, sequence_counter |-> seq]

OrderFrames(seq, payloads) ==
    LET total == SumLen(payloads) IN
    [i \in DOMAIN payloads |->
        IF i = 1 THEN payloads[1] \o <<total, seq * 32>>
        ELSE payloads[i] \o <<seq * 32 + (i - 1)>>]

OrderInit ==
    /\ ReaderInit
    /\ TransportIdle
    /\ \E seq \in SeqCounters, k \in 0..MaxFC, start \in BOOLEAN :
        \E payloads \in [1..(k + 1) -> OrderPayloads] :
            LET tables == IF start THEN <<>>
                          ELSE (OrderPgn :> StaleEntry((seq + 1) % 8))
                d == [fast_packet |-> tables, last_processed |-> <<>>,
                      todo |-> 0..k, order |-> <<>>, emitted |-> <<>>]
            IN /\ ord_frames = OrderFrames(seq, payloads)
               /\ ord_a = d
               /\ ord_b = d

Deliver(d, fc) ==
    LET r == process_fast_packet(d.fast_packet, d.last_processed, now,
                                 OrderPgn, ord_frames[fc + 1])
    IN [fast_packet |-> r.fast_packet, last_processed |-> r.last_processed,
        todo |-> d.todo \ {fc}, order |-> Append(d.order, fc),
        emitted |-> d.emitted \o r.out]

DeliverInOrder ==
    /\ ord_a.todo # {}
    /\ ord_a' = Deliver(ord_a, Min(ord_a.todo))
    /\ UNCHANGED <<readervars, ord_frames, ord_b>>
    /\ UNCHANGED transportvars

DeliverAnyOrder ==
    /\ \E fc \in ord_b.todo :
          /\ 0 \in ord_b.todo => fc = 0
          /\ ord_b' = Deliver(ord_b, fc)
    /\ UNCHANGED <<readervars, ord_frames, ord_a>>
    /\ UNCHANGED transportvars

OrderNext == DeliverInOrder \/ DeliverAnyOrder

SpecOrder == OrderInit /\ [][OrderNext]_vars

\* ------------------------------------------------------------------------
\* is_pgn_allowed_based_on_lists
\* ------------------------------------------------------------------------
\* x in list
list_contains(list, x) == \E i \in DOMAIN list : list[i] = x

\* lines 127-135 with the two tests in the other order
is_pgn_allowed_exclude_first(pgn, pgn_include_list, pgn_exclude_list) ==
    IF pgn_exclude_list # <<>> THEN ~list_contains(pgn_exclude_list, pgn)
    ELSE IF pgn_include_list # <<>> THEN list_contains(pgn_include_list, pgn)
    ELSE TRUE

is_pgn_allowed_based_on_lists(pgn, pgn_include_list, pgn_exclude_list) ==
    IF pgn_include_list # <<>> THEN list_contains(pgn_include_list, pgn)
    ELSE IF pgn_exclude_list # <<>> THEN ~list_contains(pgn_exclude_list, pgn)
    ELSE TRUE

\* SpecFilter: the function applied to every PGN and pair of lists in bounds
FilterPgns == {127250, 130306}

FilterLists == UNION {[1..n -> FilterPgns] : n \in 0..MaxList}

FilterInit ==
    /\ ReaderInit
    /\ OrderIdle
    /\ DecodeIdle
    /\ SerialIdle
    /\ TcpIdle
    /\ HostIdle
    /\ allow_result = <<>>
    /\ \E pgn \in FilterPgns, inc \in FilterLists, exc \in FilterLists :
          allow_args = [pgn |-> pgn, pgn_include_list |-> inc,
                        pgn_exclude_list |-> exc]

CheckAllowed ==
    /\ allow_result = <<>>
    /\ allow_result' = <<is_pgn_allowed_based_on_lists(allow_args.pgn,
                              allow_args.pgn_include_list,
                              allow_args.pgn_exclude_list)>>
    /\ UNCHANGED <<allow_args, readervars, ordvars, hostvars, decodevars, serialvars,
                   tcpvars>>

FilterNext == CheckAllowed

SpecFilter == FilterInit /\ [][FilterNext]_vars

\* ------------------------------------------------------------------------
\* process_packet (SerialSensor.py, TCPSensor.py).  A packet is the sequence
\* of its bytes.  The frame handed down is the string
\* "{pgn_id:06X}:{source_id:02X}:{hexlify(can_data)}"; the widths are minimum
\* widths and nothing is cut, so it is modelled by the three values it is
\* formatted from, together with the locals data_length and frame_id_int.
\* parse_frame, which SerialSensor.py calls without defining or importing
\* it and whose result it discards, is read as having no effect.
\* ------------------------------------------------------------------------
AA == 170
EndByte == 85
SerialMinLength == 7
TcpPacketLength == 13

\* s[a:b] for 0 <= a, 0 <= b
PySlice(s, a, b) ==
    LET hi == IF b < Len(s) THEN b ELSE Len(s)
    IN IF a >= hi THEN <<>> ELSE SubSeq(s, a + 1, hi)

\* s[::-1]
Reverse(s) == [i \in 1..Len(s) |-> s[Len(s) + 1 - i]]

\* int.from_bytes(s, byteorder='big'): an integer of up to 32 bits, kept as
\* its canonical base-256 digits, as int(s, 16) is
from_bytes_big(s) == hex_to_int(s)

\* n & 0xFF: the last digit
and_0xFF(n) == IF n = <<>> THEN 0 ELSE n[Len(n)]

\* n >> 8: the digits but the last
shift_right_8(n) == IF n = <<>> THEN <<>> ELSE SubSeq(n, 1, Len(n) - 1)

\* the value of the last three digits, which is below 2^24
RECURSIVE low_24(_)
low_24(n) ==
    IF n = <<>> THEN 0
    ELSE IF Len(n) > 3 THEN low_24(Tail(n))
    ELSE low_24(SubSeq(n, 1, Len(n) - 1)) * 256 + n[Len(n)]

\* n & 0x3FFFF
and_0x3FFFF(n) == low_24(n) % 262144

\* the body both transports share: the type byte is packet[at], the frame id
\* the four bytes after it, the CAN data what follows
decode_at(packet, at) ==
    LET type_byte == packet[at + 1]
        data_length == type_byte % 16
        frame_id == Reverse(PySlice(packet, at + 1, at + 5))
        frame_id_int == from_bytes_big(frame_id)
        source_id == and_0xFF(frame_id_int)
        pgn_id == and_0x3FFFF(shift_right_8(frame_id_int))
        can_data == Reverse(PySlice(packet, at + 5, at + 5 + data_length))
    IN [pgn_id |-> pgn_id, source_id |-> source_id, can_data |-> can_data,
        data_length |-> data_length, frame_id_int |-> frame_id_int]

\* SerialSensor.process_packet: the frames handed to set_pgn_entity
SerialSensor_process_packet(packet) ==
    IF Len(packet) < SerialMinLength THEN <<>>
    ELSE LET stripped == PySlice(packet, 1, Len(packet) - 1)
         IN <<decode_at(stripped, 1)>>

\* TCPSensor.process_packet: the frames handed to process_frame
TCPSensor_process_packet(packet) == <<decode_at(packet, 0)>>

\* SpecDecode: each process_packet applied to the frames of its transport,
\* AA T I0 I1 I2 I3 D0.. 55 and T I0 I1 I2 I3 D0..D7
TypeBytes == {0, 8, 35, 15, 255}

IdBytes == <<{17, 255}, {34, 255}, {51, 255}, {68, 255}>>

FrameIds == {<<a, b, c, d>> : a \in IdBytes[1], b \in IdBytes[2],
                              c \in IdBytes[3], d \in IdBytes[4]}

\* the data bytes 1, 2, .., n
DataBytes(n) == [i \in 1..n |-> i]

DecodeInit ==
    /\ ReaderInit
    /\ OrderIdle
    /\ FilterIdle
    /\ SerialIdle
    /\ TcpIdle
    /\ HostIdle
    /\ dec_result = NoResult
    /\ \E t \in TypeBytes, id \in FrameIds :
          \/ \E n \in 0..MaxData :
                dec_input = [transport |-> "serial",
                             packet |-> <<AA, t>> \o id \o DataBytes(n)
                                        \o <<EndByte>>]
          \/ dec_input = [transport |-> "tcp",
                          packet |-> <<t>> \o id
                                     \o DataBytes(TcpPacketLength - 5)]

DecodeSerial ==
    /\ dec_input.transport = "serial"
    /\ ~dec_result.done
    /\ dec_result' = [done |-> TRUE,
                      frames |-> SerialSensor_process_packet(dec_input.packet)]
    /\ UNCHANGED <<dec_input, readervars, ordvars, hostvars, filtervars, serialvars,
                   tcpvars>>

DecodeTcp ==
    /\ dec_input.transport = "tcp"
    /\ ~dec_result.done
    /\ dec_result' = [done |-> TRUE,
                      frames |-> TCPSensor_process_packet(dec_input.packet)]
    /\ UNCHANGED <<dec_input, readervars, ordvars, hostvars, filtervars, serialvars,
                   tcpvars>>

DecodeNext == DecodeSerial \/ DecodeTcp

SpecDecode == DecodeInit /\ [][DecodeNext]_vars

\* ------------------------------------------------------------------------
\* SerialSensor.read_loop.  One pass of the outer loop is one action: the
\* read, and then the inner loop until it breaks.  When the stream ends the
\* loop is left, and serial_read opens the port again and calls read_loop
\* anew, with an empty buffer.
\* ------------------------------------------------------------------------
\* s.find(b, start): the lowest index >= start that holds b, or -1
py_find(s, b, start) ==
    LET from == IF start >= 0 THEN start
                ELSE IF Len(s) + start < 0 THEN 0 ELSE Len(s) + start
        hits == {i \in from..(Len(s) - 1) : s[i + 1] = b}
    IN IF hits = {} THEN -1 ELSE Min(hits)

\* lines 75-92 where a frame of header and end code is not cut off
RECURSIVE inner_loop_keeps_short(_, _, _)
inner_loop_keeps_short(buffer, forwarded, handed) ==
    LET start == py_find(buffer, AA, 0)
        end == py_find(buffer, EndByte, start)
        packet == PySlice(buffer, start, end + 1)
    IN IF start = -1 \/ end = -1 \/ Len(packet) <= 2
       THEN [buffer |-> buffer, forwarded |-> forwarded, handed |-> handed]
       ELSE inner_loop_keeps_short(PySlice(buffer, end + 1, Len(buffer)),
                       Append(forwarded, packet),
                       handed \o SerialSensor_process_packet(packet))

\* lines 75-92: the inner loop; forwarded are the packets given to
\* process_packet, handed the frames it gave to set_pgn_entity
RECURSIVE inner_loop(_, _, _)
inner_loop(buffer, forwarded, handed) ==
    LET start == py_find(buffer, AA, 0)
        end == py_find(buffer, EndByte, start)
        packet == PySlice(buffer, start, end + 1)
    IN IF start = -1 \/ end = -1
       THEN [buffer |-> buffer, forwarded |-> forwarded, handed |-> handed]
       ELSE IF Len(packet) > 2
       THEN inner_loop(PySlice(buffer, end + 1, Len(buffer)),
                       Append(forwarded, packet),
                       handed \o SerialSensor_process_packet(packet))
       ELSE inner_loop(PySlice(buffer, end + 1, Len(buffer)), forwarded, handed)

\* what a read returns: any few bytes, or two whole frames at once
SerialBytes == {AA, EndByte, 1}

WireFrames == {<<AA, EndByte>>, <<AA, 1, EndByte>>,
               <<AA, 8, 17, 34, 51, 68, EndByte>>,
               <<AA, 35, 17, 34, 51, 68, 1, 2, 3, EndByte>>}

Chunks == UNION {[1..n -> SerialBytes] : n \in 1..MaxChunk}
          \cup {f \o g : f \in WireFrames, g \in WireFrames}

\* lines 65, 72-92: a read that returns data
SerialRead(data) ==
    LET r == inner_loop(ser_buffer \o data, <<>>, <<>>)
    IN /\ ser_call = NoPass
       /\ Len(r.buffer) <= MaxBuffer
       /\ ser_buffer' = r.buffer
       /\ ser_call' = [state |-> "read", data |-> data, before |-> ser_buffer,
                       forwarded |-> r.forwarded, handed |-> r.handed]
       /\ UNCHANGED <<readervars, ordvars, hostvars, filtervars, decodevars, tcpvars>>

\* lines 65-71: the stream has ended
SerialEnd ==
    /\ ser_call = NoPass
    /\ ser_buffer' = <<>>
    /\ ser_call' = [state |-> "ended", data |-> <<>>, before |-> ser_buffer,
                    forwarded |-> IF ser_buffer # <<>> THEN <<ser_buffer>>
                                  ELSE <<>>,
                    handed |-> IF ser_buffer # <<>>
                               THEN SerialSensor_process_packet(ser_buffer)
                               ELSE <<>>]
    /\ UNCHANGED <<readervars, ordvars, hostvars, filtervars, decodevars, tcpvars>>

\* the pass is over: its locals are gone
SerialReturn ==
    /\ ser_call # NoPass
    /\ ser_call' = NoPass
    /\ UNCHANGED ser_buffer
    /\ UNCHANGED <<readervars, ordvars, hostvars, filtervars, decodevars, tcpvars>>

SerialInit ==
    /\ ReaderInit
    /\ OrderIdle
    /\ FilterIdle
    /\ DecodeIdle
    /\ SerialIdle
    /\ TcpIdle
    /\ HostIdle

SerialReceive == \E data \in Chunks : SerialRead(data)

SerialNext == SerialReceive \/ SerialEnd \/ SerialReturn

SpecSerial == SerialInit /\ [][SerialNext]_vars

\* ------------------------------------------------------------------------
\* TCPSensor.read_loop.  One pass of the outer loop is one action.  The byte
\* at offset i of the stream is i (mod 256), so that a packet shows which
\* bytes of the stream it is made of.  When the stream ends the loop is
\* left, and tcp_read connects again and calls read_loop anew.
\* ------------------------------------------------------------------------
StreamByte(offset) == offset % 256

StreamBytes(offset, n) == [i \in 1..n |-> StreamByte(offset + i - 1)]

\* lines 58-67: the inner loop
RECURSIVE tcp_inner_loop(_, _, _)
tcp_inner_loop(buffer, forwarded, handed) ==
    IF Len(buffer) >= TcpPacketLength
    THEN LET packet == PySlice(buffer, 0, TcpPacketLength)
         IN tcp_inner_loop(PySlice(buffer, TcpPacketLength + 1, Len(buffer)),
                           Append(forwarded, packet),
                           handed \o TCPSensor_process_packet(packet))
    ELSE [buffer |-> buffer, forwarded |-> forwarded, handed |-> handed]

\* lines 48, 52-67: a read that returns n bytes
TcpRead(n) ==
    LET data == StreamBytes(tcp_received, n)
        r == tcp_inner_loop(tcp_buffer \o data, tcp_forwarded, tcp_handed)
    IN /\ tcp_received + n <= MaxStream
       /\ tcp_received' = tcp_received + n
       /\ tcp_buffer' = r.buffer
       /\ tcp_forwarded' = r.forwarded
       /\ tcp_handed' = r.handed
       /\ UNCHANGED <<readervars, ordvars, hostvars, filtervars, decodevars, serialvars>>

TcpReceive == \E n \in 1..MaxRead : TcpRead(n)

\* lines 48-51: the stream has ended; the next connection starts afresh
TcpEnd ==
    /\ tcp_received > 0
    /\ tcp_received' = 0
    /\ tcp_buffer' = <<>>
    /\ tcp_forwarded' = <<>>
    /\ tcp_handed' = <<>>
    /\ UNCHANGED <<readervars, ordvars, hostvars, filtervars, decodevars, serialvars>>

TcpInit ==
    /\ ReaderInit
    /\ OrderIdle
    /\ FilterIdle
    /\ DecodeIdle
    /\ SerialIdle
    /\ TcpIdle
    /\ HostIdle

TcpNext == TcpReceive \/ TcpEnd

SpecTcp == TcpInit /\ [][TcpNext]_vars

\* ------------------------------------------------------------------------
\* The reader task of one instance: SerialSensor.serial_read or
\* TCPSensor.tcp_read, from async_added_to_hass to stop().  task_pc is the
\* await the task is suspended at.  The event loop runs one callback at a
\* time, so a step of the task, a call of stop() and the processing of a
\* frame never overlap; stop() cancels the task, and the CancelledError is
\* thrown into the task at the await it is suspended at.  The frames read
\* on a connection reach the tables of hass.data, which belong to the
\* instance and not to the connection.
\* ------------------------------------------------------------------------
TcpFirstDelay == 1
max_retry_delay == 60
SerialFirstDelay == 5
max_delay == 60
HandleErrorSleep == 5

\* a retry delay that is doubled without the cap
next_retry_delay_uncapped(delay, cap) == delay * 2

\* TCPSensor.py line 133, SerialSensor.py line 184: min(delay * 2, cap)
next_retry_delay(delay, cap) == IF delay * 2 < cap THEN delay * 2 ELSE cap

\* a successful connection that leaves the retry delay as it is
delay_after_connect_kept(delay) == delay

\* TCPSensor.py line 99
delay_after_connect(delay) == TcpFirstDelay

\* an except clause that treats a cancellation as any other error
serial_read_handler_retry(exc) == "handle_error"

\* SerialSensor.py lines 120-128: the except clauses of serial_read
serial_read_handler(exc) ==
    CASE exc = "SerialException" -> "handle_error"
      [] exc = "CancelledError" -> "break"
      [] OTHER -> "handle_error"

\* TCPSensor.py lines 105-122: the except clauses of tcp_read
tcp_read_handler(exc) ==
    CASE exc = "TimeoutError" -> "log"
      [] exc = "CancelledError" -> "raise"
      [] OTHER -> "log"

\* TCPSensor.py lines 124-132: the finally block up to its first await
tcp_finally(has_writer) == IF has_writer THEN "closing" ELSE "sleeping"

\* one two-frame message: its first frame declares 2 bytes and carries 1
TaskFrames == {FrameData(<<0, 2>>, 0, 0), FrameData(<<2>>, 0, 1)}

TaskInit ==
    /\ ReaderInit
    /\ OrderIdle
    /\ FilterIdle
    /\ DecodeIdle
    /\ SerialIdle
    /\ TcpIdle
    /\ task_kind \in {"serial", "tcp"}
    /\ task_pc = "idle"
    /\ retry_delay = IF task_kind = "serial" THEN SerialFirstDelay ELSE 0
    /\ writer = FALSE
    /\ raising = FALSE
    /\ task_log = NoLog
    /\ ConfigIdle /\ InstIdle /\ BusIdle /\ SensorIdle /\ HubIdle

TaskQuiet == UNCHANGED <<readervars, corevars, configvars, instvars, busvars,
                         sensorvars, hubvars, task_kind>>

Opened(log) == [log EXCEPT !.fresh = TRUE,
                           !.reconnected = log.connected,
                           !.connected = TRUE,
                           !.cycle_connected = TRUE,
                           !.cycle_delay = retry_delay]

Failed(log) == [log EXCEPT !.cycle_connected = FALSE,
                           !.cycle_delay = retry_delay,
                           !.waited = 0,
                           !.failures = IF log.failures < MaxFailures
                                        THEN log.failures + 1
                                        ELSE log.failures]

\* async_added_to_hass creates the task, which runs to its first await
\* (SerialSensor.py lines 55, 103-105; TCPSensor.py lines 37, 76-94)
TaskAdded ==
    /\ frame = NoFrame
    /\ task_pc = "idle"
    /\ IF task_kind = "serial"
       THEN task_pc' = "opening" /\ UNCHANGED retry_delay
       ELSE task_pc' = "connecting" /\ retry_delay' = TcpFirstDelay
    /\ UNCHANGED <<writer, raising, task_log>>
    /\ TaskQuiet

\* TCPSensor.py lines 94-102: the connection is open, read_loop begins
TcpConnected ==
    /\ frame = NoFrame
    /\ task_kind = "tcp" /\ task_pc = "connecting"
    /\ retry_delay' = delay_after_connect(retry_delay)
    /\ writer' = TRUE
    /\ task_pc' = "reading"
    /\ task_log' = Opened(task_log)
    /\ UNCHANGED raising
    /\ TaskQuiet

\* TCPSensor.py lines 94-96, 105-131: the attempt times out or fails
TcpConnectFails ==
    /\ frame = NoFrame
    /\ task_kind = "tcp" /\ task_pc = "connecting"
    /\ \E exc \in {"TimeoutError", "Exception"} :
          tcp_read_handler(exc) = "log"
    /\ task_pc' = tcp_finally(writer)
    /\ task_log' = Failed(task_log)
    /\ UNCHANGED <<retry_delay, writer, raising>>
    /\ TaskQuiet

\* TCPSensor.py lines 48-51, 69-72, 124-128: the stream ends, or a read or
\* a packet raises; read_loop returns and the finally block closes the writer
TcpReadEnds ==
    /\ frame = NoFrame
    /\ task_kind = "tcp" /\ task_pc = "reading"
    /\ task_pc' = tcp_finally(writer)
    /\ task_log' = [task_log EXCEPT !.fresh = FALSE, !.waited = 0]
    /\ UNCHANGED <<retry_delay, writer, raising>>
    /\ TaskQuiet

\* TCPSensor.py lines 128-132: wait_closed returns (or raises an Exception)
TcpClosed ==
    /\ frame = NoFrame
    /\ task_kind = "tcp" /\ task_pc = "closing"
    /\ task_pc' = "sleeping"
    /\ UNCHANGED <<retry_delay, writer, raising, task_log>>
    /\ TaskQuiet

\* TCPSensor.py lines 132-133, 87: the sleep is over; a CancelledError that
\* was passing the finally block now leaves tcp_read
TcpSleepDone ==
    /\ frame = NoFrame
    /\ task_kind = "tcp" /\ task_pc = "sleeping"
    /\ retry_delay' = next_retry_delay(retry_delay, max_retry_delay)
    /\ task_pc' = IF raising THEN "ended" ELSE "connecting"
    /\ task_log' = [task_log EXCEPT !.waited = retry_delay]
    /\ UNCHANGED <<writer, raising>>
    /\ TaskQuiet

\* TCPSensor.py lines 176-180, 115-117, 124-132: stop() cancels the task
TcpStop ==
    /\ frame = NoFrame
    /\ task_kind = "tcp" /\ task_pc \notin {"idle", "ended"}
    /\ IF task_pc \in {"connecting", "reading"}
       THEN IF tcp_read_handler("CancelledError") = "raise"
            THEN raising' = TRUE /\ task_pc' = tcp_finally(writer)
            ELSE UNCHANGED raising /\ task_pc' = tcp_finally(writer)
       ELSE UNCHANGED raising /\ task_pc' = "ended"
    /\ task_log' = [task_log EXCEPT !.stopped = TRUE, !.fresh = FALSE]
    /\ UNCHANGED <<retry_delay, writer>>
    /\ TaskQuiet

\* SerialSensor.py lines 105-117: the port is open, read_loop begins
SerialOpened ==
    /\ frame = NoFrame
    /\ task_kind = "serial" /\ task_pc = "opening"
    /\ task_pc' = "reading"
    /\ task_log' = Opened(task_log)
    /\ UNCHANGED <<retry_delay, writer, raising>>
    /\ TaskQuiet

\* SerialSensor.py lines 105, 120-122, 126-128, 177-182: the open fails
SerialOpenFails ==
    /\ frame = NoFrame
    /\ task_kind = "serial" /\ task_pc = "opening"
    /\ \E exc \in {"SerialException", "Exception"} :
          serial_read_handler(exc) = "handle_error"
    /\ task_pc' = "sleep5"
    /\ task_log' = Failed(task_log)
    /\ UNCHANGED <<retry_delay, writer, raising>>
    /\ TaskQuiet

\* SerialSensor.py lines 66-71, 94-97, 117, 103-105: the stream ends, or a
\* read or a packet raises; read_loop returns and serial_read opens again
SerialReadEnds ==
    /\ frame = NoFrame
    /\ task_kind = "serial" /\ task_pc = "reading"
    /\ task_pc' = "opening"
    /\ task_log' = [task_log EXCEPT !.fresh = FALSE, !.waited = 0]
    /\ UNCHANGED <<retry_delay, writer, raising>>
    /\ TaskQuiet

\* SerialSensor.py lines 182-183: the first sleep of _handle_error is over
SerialSleep5Done ==
    /\ frame = NoFrame
    /\ task_kind = "serial" /\ task_pc = "sleep5"
    /\ task_pc' = "sleeping"
    /\ task_log' = [task_log EXCEPT !.waited = @ + HandleErrorSleep]
    /\ UNCHANGED <<retry_delay, writer, raising>>
    /\ TaskQuiet

\* SerialSensor.py lines 183-184, 103-105: the second sleep is over
SerialSleepDone ==
    /\ frame = NoFrame
    /\ task_kind = "serial" /\ task_pc = "sleeping"
    /\ retry_delay' = next_retry_delay(retry_delay, max_delay)
    /\ task_pc' = "opening"
    /\ task_log' = [task_log EXCEPT !.waited = @ + retry_delay]
    /\ UNCHANGED <<writer, raising>>
    /\ TaskQuiet

\* SerialSensor.py lines 186-190, 123-125: stop() cancels the task; inside
\* _handle_error the CancelledError leaves serial_read uncaught
SerialStop ==
    /\ frame = NoFrame
    /\ task_kind = "serial" /\ task_pc \notin {"idle", "ended"}
    /\ IF task_pc \in {"opening", "reading"}
       THEN task_pc' = IF serial_read_handler("CancelledError") = "break"
                       THEN "ended" ELSE "sleep5"
       ELSE task_pc' = "ended"
    /\ task_log' = [task_log EXCEPT !.stopped = TRUE, !.fresh = FALSE]
    /\ UNCHANGED <<retry_delay, writer, raising>>
    /\ TaskQuiet

\* a frame read on the connection is processed (sensorCommon.py lines 9-98)
TaskReceive ==
    /\ frame = NoFrame
    /\ task_pc = "reading"
    /\ \E pgn \in PGNs, data \in TaskFrames :
          LET r == process_fast_packet(fast_packet, last_processed, now,
                                       pgn, data)
          IN /\ fast_packet' = r.fast_packet
             /\ last_processed' = r.last_processed
             /\ out' = r.out
             /\ exit_line' = r.exit
             /\ gate' = r.gate
             /\ frame' = [pgn |-> pgn, data |-> data]
             /\ before' = [fast_packet |-> fast_packet,
                           last_processed |-> last_processed]
    /\ task_log' = [task_log EXCEPT
                       !.fresh = FALSE,
                       !.first_of_reconnect = task_log.fresh /\ task_log.reconnected]
    /\ UNCHANGED <<now, task_kind, task_pc, retry_delay, writer, raising>>
    /\ UNCHANGED <<corevars, configvars, instvars, busvars, sensorvars, hubvars>>

TaskStep ==
    \/ TcpClosed
    \/ TcpSleepDone
    \/ SerialSleep5Done
    \/ SerialSleepDone
    \/ Return

TaskNext ==
    \/ TaskAdded
    \/ TcpConnected
    \/ TcpConnectFails
    \/ TcpReadEnds
    \/ TcpClosed
    \/ TcpSleepDone
    \/ TcpStop
    \/ SerialOpened
    \/ SerialOpenFails
    \/ SerialReadEnds
    \/ SerialSleep5Done
    \/ SerialSleepDone
    \/ SerialStop
    \/ TaskReceive
    \/ Return

SpecTask == TaskInit /\ [][TaskNext]_vars

\* The event loop resumes a task whose sleep or close has finished, and a
\* call that has begun returns.
FairTask == SpecTask /\ WF_vars(TaskStep)

\* ------------------------------------------------------------------------
\* SpecConfig: each of the six operations applied once to every input in
\* bounds.
\* ------------------------------------------------------------------------
Chars == {",", " ", "1", "7", "x"}

Texts(n) == UNION {[1..k -> Chars] : k \in 0..n}

Optional(S) == {<<>>} \cup {<<t>> : t \in S}

ParseOps == {"config_flow.parse", "sensor.parse"}
FlowOps == {"async_step_options", "async_step_init"}

\* a call of one of the two parse functions, of one of the two forms, of
\* sensor.async_setup_entry or of Hub.__init__, with its arguments
ConfigCall(o, i, e, a, x) ==
    [op |-> o, pgn_include |-> i, pgn_exclude |-> e,
     exclude_ais |-> a, experimental |-> x]

ConfigInit ==
    /\ ReaderInit
    /\ OrderIdle
    /\ FilterIdle
    /\ DecodeIdle
    /\ SerialIdle
    /\ TcpIdle
    /\ TaskIdle /\ InstIdle /\ BusIdle /\ SensorIdle /\ HubIdle
    /\ \/ \E o \in ParseOps, t \in Texts(MaxText) :
             cfg_call = ConfigCall(o, <<t>>, <<>>, FALSE, FALSE)
       \/ \E o \in FlowOps \cup {"sensor.async_setup_entry"},
             i \in Optional(Texts(MaxField)), e \in Optional(Texts(MaxField)) :
             cfg_call = ConfigCall(o, i, e, FALSE, FALSE)
       \/ \E i \in Optional(Texts(MaxField)), e \in Optional(Texts(MaxField)),
             a \in BOOLEAN, x \in BOOLEAN :
             cfg_call = ConfigCall("Hub.__init__", i, e, a, x)
    /\ cfg_result = NoOutcome

\* config_flow.py lines 43-64
ParseConfigFlow ==
    /\ cfg_call.op = "config_flow.parse" /\ ~cfg_result.done
    /\ LET r == config_flow_parse_and_validate_comma_separated_integers(
                    cfg_call.pgn_include[1])
       IN cfg_result' = [NoOutcome EXCEPT !.done = TRUE, !.raised = r.raised,
                                          !.value = r.value]
    /\ UNCHANGED <<cfg_call, readervars, corevars, taskvars, instvars,
                   busvars, sensorvars, hubvars>>

\* sensor.py lines 89-112
ParseSensor ==
    /\ cfg_call.op = "sensor.parse" /\ ~cfg_result.done
    /\ LET r == sensor_parse_and_validate_comma_separated_integers(
                    cfg_call.pgn_include[1])
       IN cfg_result' = [NoOutcome EXCEPT !.done = TRUE, !.raised = r.raised,
                                          !.value = r.value]
    /\ UNCHANGED <<cfg_call, readervars, corevars, taskvars, instvars,
                   busvars, sensorvars, hubvars>>

\* config_flow.py lines 103-139: the entry is created when errors is empty
StepOptions ==
    /\ cfg_call.op = "async_step_options" /\ ~cfg_result.done
    /\ LET errors == flow_errors(cfg_call)
       IN cfg_result' = [NoOutcome EXCEPT !.done = TRUE, !.errors = errors,
                                          !.written = no_errors(errors)]
    /\ UNCHANGED <<cfg_call, readervars, corevars, taskvars, instvars,
                   busvars, sensorvars, hubvars>>

\* config_flow.py lines 149-201: the entry is updated when errors is empty
StepInit ==
    /\ cfg_call.op = "async_step_init" /\ ~cfg_result.done
    /\ LET errors == flow_errors(cfg_call)
       IN cfg_result' = [NoOutcome EXCEPT !.done = TRUE, !.errors = errors,
                                          !.written = no_errors(errors)]
    /\ UNCHANGED <<cfg_call, readervars, corevars, taskvars, instvars,
                   busvars, sensorvars, hubvars>>

\* sensor.py lines 37-86: the gateway is built with the two lists
SetupSensor ==
    /\ cfg_call.op = "sensor.async_setup_entry" /\ ~cfg_result.done
    /\ LET pgn_include ==
               sensor_parse_and_validate_comma_separated_integers(
                   entry_get(cfg_call, "pgn_include"))
           pgn_exclude ==
               sensor_parse_and_validate_comma_separated_integers(
                   entry_get(cfg_call, "pgn_exclude"))
       IN cfg_result' = [NoOutcome EXCEPT !.done = TRUE, !.proceeded = TRUE,
                                          !.include = pgn_include.value,
                                          !.exclude = pgn_exclude.value]
    /\ UNCHANGED <<cfg_call, readervars, corevars, taskvars, instvars,
                   busvars, sensorvars, hubvars>>

\* hub.py lines 69-251: a ValueError of either parse leaves __init__; else
\* the exclude list is extended when the include list is empty, and the
\* gateway is built with the two lists without duplicates
SetupHub ==
    /\ cfg_call.op = "Hub.__init__" /\ ~cfg_result.done
    /\ LET pgn_include ==
               config_flow_parse_and_validate_comma_separated_integers(
                   entry_get(cfg_call, "pgn_include"))
           pgn_exclude ==
               config_flow_parse_and_validate_comma_separated_integers(
                   entry_get(cfg_call, "pgn_exclude"))
           extend == pgn_include.value = <<>>
           ais == IF extend /\ cfg_call.exclude_ais THEN AisPgns ELSE {}
           unwanted == extend /\ ~cfg_call.experimental
       IN cfg_result' =
             IF pgn_include.raised \/ pgn_exclude.raised
             THEN [NoOutcome EXCEPT !.done = TRUE, !.raised = TRUE]
             ELSE [NoOutcome EXCEPT
                      !.done = TRUE, !.proceeded = TRUE,
                      !.include = Elems(pgn_include.value),
                      !.exclude = Elems(pgn_exclude.value) \cup ais \cup
                                  (IF unwanted THEN UnwantedPgns ELSE {}),
                      !.names = IF unwanted THEN UnwantedNames ELSE {}]
    /\ UNCHANGED <<cfg_call, readervars, corevars, taskvars, instvars,
                   busvars, sensorvars, hubvars>>

ConfigNext ==
    \/ ParseConfigFlow
    \/ ParseSensor
    \/ StepOptions
    \/ StepInit
    \/ SetupSensor
    \/ SetupHub

SpecConfig == ConfigInit /\ [][ConfigNext]_vars

\* ------------------------------------------------------------------------
\* SpecInstances: two instances in one process.  hass.data maps a key to a
\* table; process_fast_packet and can_process build the keys of their
\* tables from instance_name.  Both instances receive frames of one PGN.
\* ------------------------------------------------------------------------
\* a key that leaves the instance name out
fast_packet_key_shared(instance_name) == "fast_packet_key"

\* sensorCommon.py line 11 (and line 184)
fast_packet_key(instance_name) == instance_name \o "_fast_packet_key"

\* sensorCommon.py line 103
smart2000timestamp_key(instance_name) ==
    instance_name \o "_smart2000timestamp_key"

InstanceNames == {"a", "b", "a_fast_packet_key", "a_smart2000timestamp_key"}

InstInit ==
    /\ ReaderInit
    /\ OrderIdle
    /\ FilterIdle
    /\ DecodeIdle
    /\ SerialIdle
    /\ TcpIdle
    /\ TaskIdle /\ ConfigIdle /\ BusIdle /\ SensorIdle /\ HubIdle
    /\ inst_names \in {S \in SUBSET InstanceNames : Cardinality(S) = 2}
    /\ hass_data = [k \in {fast_packet_key(n) : n \in inst_names} \cup
                          {smart2000timestamp_key(n) : n \in inst_names}
                    |-> <<>>]
    /\ inst_call = NoInstCall

\* sensorCommon.py lines 9-98, 101-114: one frame processed for one instance
InstanceReceive ==
    \E name \in inst_names, pgn \in PGNs, data \in TaskFrames :
        LET fk == fast_packet_key(name)
            tk == smart2000timestamp_key(name)
            r == process_fast_packet(hass_data[fk], hass_data[tk], now,
                                     pgn, data)
        IN /\ hass_data' = [k \in DOMAIN hass_data |->
                               IF k = fk THEN r.fast_packet
                               ELSE IF k = tk THEN r.last_processed
                               ELSE hass_data[k]]
           /\ inst_call' = [name |-> name, pgn |-> pgn, data |-> data,
                            before |-> hass_data]
           /\ UNCHANGED <<inst_names, readervars, corevars, taskvars,
                          configvars, busvars, sensorvars, hubvars>>

InstNext == InstanceReceive

SpecInstances == InstInit /\ [][InstNext]_vars

\* ------------------------------------------------------------------------
\* SpecBus: several devices send the same fast-packet PGN.  A message is
\* MaxFC + 1 frames of one payload byte each; the byte names the sender and
\* the message, so a stored frame shows whose it is.  Every sender counts
\* its sequences from 0.  process_fast_packet is given the PGN and the data
\* bytes only: the source address that process_frame extracts (line 215)
\* does not reach it.
\* ------------------------------------------------------------------------
BusSources == {1, 2}

\* <<source, number>>: source 1 sends two messages, source 2 sends one
BusMessages == {<<1, 1>>, <<1, 2>>, <<2, 1>>}

BusByte(m) == m[1] * 16 + m[2]

MessageOfByte(b) == <<b \div 16, b % 16>>

BusFrame(m, fc) ==
    IF fc = 0 THEN FrameData(<<BusByte(m), MaxFC + 1>>, 0, 0)
    ELSE FrameData(<<BusByte(m)>>, 0, fc)

\* a sender puts the frames of a message on the bus in order, and starts
\* its next message after the last frame of the one before
MayLeave(m) ==
    /\ bus_sent[m] <= MaxFC
    /\ \A o \in BusMessages :
         (o[1] = m[1] /\ o[2] < m[2]) => bus_sent[o] = MaxFC + 1

BusInit ==
    /\ ReaderInit
    /\ OrderIdle
    /\ FilterIdle /\ DecodeIdle /\ SerialIdle /\ TcpIdle
    /\ TaskIdle /\ ConfigIdle /\ InstIdle /\ SensorIdle /\ HubIdle
    /\ bus_sent = [m \in BusMessages |-> 0]
    /\ bus_rejected = {}

BusQuiet == UNCHANGED <<corevars, taskvars, configvars, instvars, sensorvars, hubvars>>

\* the next frame of a message reaches the gateway and is processed
BusReceive ==
    \E pgn \in PGNs, m \in BusMessages :
        LET fc == bus_sent[m]
            data == BusFrame(m, fc)
            r == process_fast_packet(fast_packet, last_processed, now, pgn, data)
            collecting == /\ pgn \in DOMAIN fast_packet
                          /\ fast_packet[pgn].frames # <<>>
                          /\ ~is_complete(fast_packet[pgn])
        IN /\ frame = NoFrame
           /\ MayLeave(m)
           /\ fast_packet' = r.fast_packet
           /\ last_processed' = r.last_processed
           /\ out' = r.out
           /\ exit_line' = r.exit
           /\ gate' = r.gate
           /\ frame' = [pgn |-> pgn, data |-> data]
           /\ before' = [fast_packet |-> fast_packet,
                         last_processed |-> last_processed]
           /\ bus_sent' = [bus_sent EXCEPT ![m] = fc + 1]
           /\ bus_rejected' = IF r.exit = ExitThrottled /\ collecting
                              THEN bus_rejected \cup {m} ELSE bus_rejected
           /\ UNCHANGED now
           /\ BusQuiet

\* the next frame of a message is lost before the gateway
BusLose ==
    \E m \in BusMessages :
        /\ frame = NoFrame
        /\ MayLeave(m)
        /\ bus_sent' = [bus_sent EXCEPT ![m] = bus_sent[m] + 1]
        /\ UNCHANGED <<readervars, bus_rejected>>
        /\ BusQuiet

BusNext == BusReceive \/ BusLose \/ Return \/ Tick

SpecBus == BusInit /\ [][BusNext]_vars

\* ------------------------------------------------------------------------
\* SpecSensor: one NMEA2000Sensor (NMEA2000Sensor.py).  Times are minutes.
\* Home Assistant adds the entity (async_added_to_hass) and may remove it
\* (async_will_remove_from_hass); both await the base class before they
\* touch _ready, so set_state and update_availability can run in between.
\* ------------------------------------------------------------------------
DEFAULT_UPDATE_INTERVAL == 5

\* timedelta(days=10**6), in minutes
INFINITE_DURATION == 1440000000

UNAVAILABLE_FACTOR == 10

\* the values a sensor is given
States == {"v", "w"}

\* the update_frequncy and ttl arguments of the constructor: <<>> is None,
\* <<n>> is timedelta(minutes=n)
Frequencies == {<<>>, <<2>>}

Ttls == {<<>>, <<1>>}

\* lines 38 and 48-57
new_sensor(initial_state, update_frequncy, ttl, clock) ==
    [native_value |-> initial_state,
     last_updated |-> clock,
     last_seen |-> clock,
     update_frequncy |-> IF update_frequncy = <<>> THEN DEFAULT_UPDATE_INTERVAL
                         ELSE update_frequncy[1],
     ttl |-> IF ttl = <<>> THEN INFINITE_DURATION
             ELSE ttl[1] * UNAVAILABLE_FACTOR,
     ready |-> FALSE,
     available |-> initial_state # None]

\* lines 83 and 97 left out
is_ready_always(self) == TRUE

\* lines 83 and 97: "if not self._ready: return"
is_ready(self) == self.ready

Effect(self, scheduled) == [self |-> self, scheduled |-> scheduled]

\* line 88 with "<=" for "<"
within_ttl_inclusive(availability_delta, ttl) == availability_delta <= ttl

\* line 88: "availability_delta < self.ttl"
within_ttl(availability_delta, ttl) == availability_delta < ttl

\* lines 80-93
update_availability(self, clock) ==
    IF ~is_ready(self) THEN Effect(self, FALSE)
    ELSE LET availability_delta == clock - self.last_seen
             new_availability == within_ttl(availability_delta, self.ttl)
         IN IF self.available # new_availability
            THEN Effect([self EXCEPT !.available = new_availability], TRUE)
            ELSE Effect(self, FALSE)

\* lines 95-126
set_state(self, clock, new_state) ==
    IF ~is_ready(self) THEN Effect(self, FALSE)
    ELSE LET old_state == self.native_value
             seen == [self EXCEPT !.native_value = new_state,
                                  !.last_seen = clock,
                                  !.available = TRUE]
             became_available == ~self.available
         IN IF ~became_available
               /\ clock - self.last_updated < self.update_frequncy
            THEN Effect(seen, FALSE)
            ELSE IF became_available \/ new_state # old_state
            THEN Effect([seen EXCEPT !.last_updated = clock], TRUE)
            ELSE Effect(seen, FALSE)

\* lines 93 and 126: async_schedule_update_ha_state hands the state of the
\* entity, as the call leaves it, to Home Assistant
publication(pub, effect, clock) ==
    IF effect.scheduled
    THEN [at |-> clock, native_value |-> effect.self.native_value,
          available |-> effect.self.available]
    ELSE pub

SensorInit ==
    /\ ReaderInit
    /\ OrderIdle
    /\ FilterIdle /\ DecodeIdle /\ SerialIdle /\ TcpIdle
    /\ TaskIdle /\ ConfigIdle /\ InstIdle /\ BusIdle /\ HubIdle
    /\ sensor_now = 0
    /\ sensor \in {new_sensor(initial_state, update_frequncy, ttl, 0) :
                     initial_state \in States \cup {None},
                     update_frequncy \in Frequencies, ttl \in Ttls}
    /\ sensor_pc = "constructed"
    /\ sensor_call = NoSensorCall
    /\ sensor_pub = NoPublication

SensorQuiet ==
    UNCHANGED <<readervars, corevars, taskvars, configvars, instvars, busvars,
                hubvars>>

\* lines 128-132: up to the await
AddedBegins ==
    /\ sensor_call = NoSensorCall
    /\ sensor_pc = "constructed"
    /\ sensor_pc' = "adding"
    /\ UNCHANGED <<sensor, sensor_now, sensor_call, sensor_pub>>
    /\ SensorQuiet

\* line 133
AddedEnds ==
    /\ sensor_call = NoSensorCall
    /\ sensor_pc = "adding"
    /\ sensor_pc' = "added"
    /\ sensor' = [sensor EXCEPT !.ready = TRUE]
    /\ UNCHANGED <<sensor_now, sensor_call, sensor_pub>>
    /\ SensorQuiet

\* lines 135-137: up to the await
RemoveBegins ==
    /\ sensor_call = NoSensorCall
    /\ sensor_pc = "added"
    /\ sensor_pc' = "removing"
    /\ UNCHANGED <<sensor, sensor_now, sensor_call, sensor_pub>>
    /\ SensorQuiet

\* line 138
RemoveEnds ==
    /\ sensor_call = NoSensorCall
    /\ sensor_pc = "removing"
    /\ sensor_pc' = "removed"
    /\ sensor' = [sensor EXCEPT !.ready = FALSE]
    /\ UNCHANGED <<sensor_now, sensor_call, sensor_pub>>
    /\ SensorQuiet

\* lines 95-126, called with new_state
SetStateTo(new_state) ==
    LET r == set_state(sensor, sensor_now, new_state)
    IN /\ sensor_call = NoSensorCall
       /\ sensor' = r.self
       /\ sensor_call' = [op |-> "set_state", new_state |-> new_state,
                          before |-> sensor, scheduled |-> r.scheduled,
                          published |-> sensor_pub]
       /\ sensor_pub' = publication(sensor_pub, r, sensor_now)
       /\ UNCHANGED <<sensor_pc, sensor_now>>
       /\ SensorQuiet

SetState == \E new_state \in States : SetStateTo(new_state)

UpdateAvailability ==
    LET r == update_availability(sensor, sensor_now)
    IN /\ sensor_call = NoSensorCall
       /\ sensor' = r.self
       /\ sensor_call' = [op |-> "update_availability", new_state |-> None,
                          before |-> sensor, scheduled |-> r.scheduled,
                          published |-> sensor_pub]
       /\ sensor_pub' = publication(sensor_pub, r, sensor_now)
       /\ UNCHANGED <<sensor_pc, sensor_now>>
       /\ SensorQuiet

\* the method returns: its arguments are gone
SensorReturn ==
    /\ sensor_call # NoSensorCall
    /\ sensor_call' = NoSensorCall
    /\ UNCHANGED <<sensor, sensor_pc, sensor_now, sensor_pub>>
    /\ SensorQuiet

SensorTick ==
    /\ sensor_call = NoSensorCall
    /\ sensor_now < MaxClock
    /\ sensor_now' = sensor_now + 1
    /\ UNCHANGED <<sensor, sensor_pc, sensor_call, sensor_pub>>
    /\ SensorQuiet

SensorNext ==
    \/ AddedBegins \/ AddedEnds \/ RemoveBegins \/ RemoveEnds
    \/ SetState \/ UpdateAvailability \/ SensorReturn \/ SensorTick

SpecSensor == SensorInit /\ [][SensorNext]_vars

\* Time passes, a method that was called returns, and the source of the
\* sensor goes on reporting values: set_state is called again and again.
FairSensor ==
    /\ SpecSensor
    /\ WF_vars(SensorTick)
    /\ WF_vars(SensorReturn)
    /\ SF_vars(SetState)

\* ------------------------------------------------------------------------
\* The Hub (hub.py).  absent sensors are looked up as NoSensor.
\* ------------------------------------------------------------------------
\* lines 81-89: the fields the callbacks and update_tasks use
new_hub ==
    [state |-> "Initializing", async_add_entities |-> FALSE, sensors |-> <<>>,
     message_count_per_interval |-> 0, last_count_time |-> 0,
     messages_per_minute |-> 0, stop_event |-> FALSE,
     msg_per_minute_sensor |-> new_sensor("0", <<>>, <<>>, 0)]

NewHubLog ==
    [status |-> "", all_ready |-> TRUE, messages |-> 0, processed |-> 0,
     created |-> <<>>, rounds |-> 0, availability_rounds |-> 0,
     rounds_after_stop |-> 0]

\* ------------------------------------------------------------------------
\* SpecStatus: the gateway reports its connection status to the hub, whose
\* State sensor (lines 150-155: no update_frequncy, no ttl) is the sensor of
\* SpecSensor's variables.
\* ------------------------------------------------------------------------
\* the values of nmea2000.State, as status_callback tells them apart
GatewayStates == {"CONNECTED", "DISCONNECTED", "OTHER"}

\* lines 320-325
state_of(state) ==
    IF state = "CONNECTED" THEN "Running"
    ELSE IF state = "DISCONNECTED" THEN "Disconnected"
    ELSE "Unknown"

StatusInit ==
    /\ ReaderInit
    /\ OrderIdle
    /\ FilterIdle /\ DecodeIdle /\ SerialIdle /\ TcpIdle
    /\ TaskIdle /\ ConfigIdle /\ InstIdle /\ BusIdle
    /\ sensor_now = 0
    /\ hub = new_hub
    /\ sensor = new_sensor(new_hub.state, <<>>, <<>>, 0)
    /\ sensor_pc = "constructed"
    /\ sensor_call = NoSensorCall
    /\ sensor_pub = NoPublication
    /\ update_task = NoTask
    /\ hub_log = NewHubLog

HubQuiet ==
    UNCHANGED <<readervars, corevars, taskvars, configvars, instvars, busvars>>

\* lines 313-328
status_callback ==
    \E state \in GatewayStates :
        LET self == [hub EXCEPT !.state = state_of(state)]
            r == set_state(sensor, sensor_now, self.state)
        IN /\ sensor_call = NoSensorCall
           /\ hub' = self
           /\ sensor' = r.self
           /\ sensor_call' = [op |-> "set_state", new_state |-> self.state,
                              before |-> sensor, scheduled |-> r.scheduled,
                              published |-> sensor_pub]
           /\ sensor_pub' = publication(sensor_pub, r, sensor_now)
           /\ hub_log' = [hub_log EXCEPT
                             !.status = state,
                             !.all_ready = hub_log.all_ready /\ sensor.ready]
           /\ UNCHANGED <<sensor_pc, sensor_now, update_task>>
           /\ HubQuiet

StatusNext ==
    \/ AddedBegins \/ AddedEnds \/ RemoveBegins \/ RemoveEnds
    \/ status_callback \/ SensorReturn \/ SensorTick

SpecStatus == StatusInit /\ [][StatusNext]_vars

\* ------------------------------------------------------------------------
\* SpecHub: messages reach Hub.receive_callback while Home Assistant
\* registers async_add_entities and adds the sensors it is handed.  The
\* sensor of SpecSensor's variables is total_messages_sensor (lines
\* 156-163); the sensors of self.sensors are records like it.
\* receive_callback has no await: a call runs from its first line to its
\* last with nothing in between.
\* ------------------------------------------------------------------------
\* line 94: time_between_updates, in the time unit of the clock
TimeBetweenUpdates == <<1>>

\* lines 381-387
SkippedTypes == {"RESERVED", "SPARE", "BINARY", "VARIABLE", "FIELD_INDEX"}

\* the values of the count sensors are Python ints, written in decimal
\* here: lines 350 and 368, "native_value + 1"
plus_one(native_value) ==
    CHOOSE d \in DOMAIN digit_value :
        digit_value[d] = digit_value[native_value] + 1

Fields ==
    {<<[id |-> "x", type |-> "NUMBER", value |-> "v"]>>,
     <<[id |-> "r", type |-> "RESERVED", value |-> "v"],
       [id |-> "sid", type |-> "NUMBER", value |-> "v"],
       [id |-> "x", type |-> "NUMBER", value |-> "v"],
       [id |-> "x", type |-> "NUMBER", value |-> "w"]>>}

Messages ==
    {[id |-> i, PGN |-> "130306", hash |-> "h", ttl |-> <<>>, fields |-> f] :
        i \in {"a", "b"}, f \in Fields}

\* self.sensors.get(key) with every key absent
sensors_get_none(sensors, key) == NoSensor

\* lines 353 and 407: self.sensors.get(key), None when the key is absent
sensors_get(sensors, key) ==
    IF key \in DOMAIN sensors THEN sensors[key] ELSE NoSensor

\* line 376 (self.id is "n2k")
sensor_name_prefix(message) ==
    "n2k_" \o message.PGN \o "_" \o message.id \o "_" \o message.hash \o "_"

Sensors(sensors, created) == [sensors |-> sensors, created |-> created]

\* lines 379-432: created lists the ids of the sensors constructed so far
RECURSIVE fields_loop(_, _, _, _, _)
fields_loop(sensors, created, fields, message, clock) ==
    IF fields = <<>> THEN Sensors(sensors, created)
    ELSE LET field == Head(fields)
             sensor_id == sensor_name_prefix(message) \o field.id
             found == sensors_get(sensors, sensor_id)
         IN IF field.type \in SkippedTypes \/ field.id = "sid"
            THEN fields_loop(sensors, created, Tail(fields), message, clock)
            ELSE IF found = NoSensor
            THEN fields_loop(
                     Put(sensors, sensor_id,
                         new_sensor(field.value, TimeBetweenUpdates,
                                    message.ttl, clock)),
                     Append(created, sensor_id), Tail(fields), message, clock)
            ELSE fields_loop(
                     Put(sensors, sensor_id,
                         set_state(found, clock, field.value).self),
                     created, Tail(fields), message, clock)

\* lines 352-374: the sensor that counts the messages of one id
pgn_sensor_step(sensors, created, message, clock) ==
    LET pgn_sensor == sensors_get(sensors, message.id)
    IN IF pgn_sensor = NoSensor
       THEN Sensors(Put(sensors, message.id,
                        new_sensor("1", TimeBetweenUpdates, <<>>, clock)),
                    Append(created, message.id))
       ELSE Sensors(Put(sensors, message.id,
                        set_state(pgn_sensor, clock,
                                  plus_one(pgn_sensor.native_value)).self),
                    created)

HubInit ==
    /\ ReaderInit
    /\ OrderIdle
    /\ FilterIdle /\ DecodeIdle /\ SerialIdle /\ TcpIdle
    /\ TaskIdle /\ ConfigIdle /\ InstIdle /\ BusIdle
    /\ sensor_now = 0
    /\ hub = new_hub
    /\ sensor = new_sensor("0", TimeBetweenUpdates, <<>>, 0)
    /\ sensor_pc = "unregistered"
    /\ sensor_call = NoSensorCall
    /\ sensor_pub = NoPublication
    /\ update_task = NoTask
    /\ hub_log = NewHubLog

\* lines 254-269: the system sensors are handed to Home Assistant
register_async_add_entities ==
    /\ sensor_call = NoSensorCall
    /\ sensor_pc = "unregistered"
    /\ hub' = [hub EXCEPT !.async_add_entities = TRUE]
    /\ sensor_pc' = "constructed"
    /\ UNCHANGED <<sensor, sensor_now, sensor_call, sensor_pub, update_task, hub_log>>
    /\ HubQuiet

\* lines 330-346: async_add_entities is None, the message is dropped
receive_dropped(message) ==
    /\ ~hub.async_add_entities
    /\ hub_log' = [hub_log EXCEPT !.messages = hub_log.messages + 1]
    /\ UNCHANGED <<hub, sensor, sensor_call, sensor_pub>>

\* lines 348-432
receive_processed(message) ==
    LET r == set_state(sensor, sensor_now, plus_one(sensor.native_value))
        counted == pgn_sensor_step(hub.sensors, hub_log.created, message,
                                   sensor_now)
        done == fields_loop(counted.sensors, counted.created, message.fields,
                            message, sensor_now)
    IN /\ hub.async_add_entities
       /\ hub' = [hub EXCEPT
                     !.message_count_per_interval =
                         hub.message_count_per_interval + 1,
                     !.sensors = done.sensors]
       /\ sensor' = r.self
       /\ sensor_call' = [op |-> "set_state",
                          new_state |-> plus_one(sensor.native_value),
                          before |-> sensor, scheduled |-> r.scheduled,
                          published |-> sensor_pub]
       /\ sensor_pub' = publication(sensor_pub, r, sensor_now)
       /\ hub_log' = [hub_log EXCEPT
                         !.messages = hub_log.messages + 1,
                         !.processed = hub_log.processed + 1,
                         !.created = done.created]

\* lines 330-432, for one message
receive(message) ==
    /\ sensor_call = NoSensorCall
    /\ receive_dropped(message) \/ receive_processed(message)
    /\ UNCHANGED <<sensor_pc, sensor_now, update_task>>
    /\ HubQuiet

receive_callback ==
    \E message \in Messages :
        /\ hub_log.messages < MaxMessages
        /\ receive(message)

\* NMEA2000Sensor.py lines 128-133, for a sensor of self.sensors that was
\* handed to async_add_entities at line 364 or 423
SensorOfHubAdded ==
    \E key \in DOMAIN hub.sensors :
        /\ sensor_call = NoSensorCall
        /\ ~hub.sensors[key].ready
        /\ hub' = [hub EXCEPT !.sensors[key].ready = TRUE]
        /\ UNCHANGED <<sensorvars, update_task, hub_log>>
        /\ HubQuiet

HubTick ==
    /\ sensor_now < MaxHubClock
    /\ SensorTick

HubNext ==
    \/ register_async_add_entities \/ receive_callback
    \/ AddedBegins \/ AddedEnds \/ SensorOfHubAdded
    \/ SensorReturn \/ HubTick

SpecHub == HubInit /\ [][HubNext]_vars

\* ------------------------------------------------------------------------
\* SpecUpdate: the background task of the hub (update_tasks), started by
\* Hub.start and stopped by Hub.stop.  Times are seconds.  `sensor' is the
\* Total message count sensor as in SpecHub; the Messages per minute sensor
\* is hub.msg_per_minute_sensor.  update_tasks awaits in event_wait only:
\* one pass of its loop, from the end of a wait to the next wait, is one
\* step.
\* ------------------------------------------------------------------------
\* lines 279-280, in seconds
availability_interval == 300

message_rate_interval == 10

\* a sensor built with the default update_frequncy (minutes), on the clock
\* of this section; the default ttl is beyond every clock in either unit
defaults_in_seconds(self) ==
    [self EXCEPT !.update_frequncy = DEFAULT_UPDATE_INTERVAL * 60]

\* one message whose field sensor expires: 1 s of ttl, ten times that
UpdateMessages ==
    {[id |-> "a", PGN |-> "130306", hash |-> "h", ttl |-> <<1>>,
      fields |-> <<[id |-> "x", type |-> "NUMBER", value |-> "v"]>>]}

\* a Python int, written in decimal
str(n) ==
    LET digit(d) == CHOOSE c \in DOMAIN digit_value : digit_value[c] = d
    IN IF n < 10 THEN digit(n) ELSE digit(n \div 10) \o digit(n % 10)

\* event_wait returning False whatever the event, as after every timeout
event_wait_timeout(evt) == FALSE

\* lines 50-63: when the wait is over, for the event or for the timeout,
\* the answer is evt.is_set()
event_wait(evt) == evt

\* line 61: the wait is over when the event is set or the timeout has passed
wait_is_over(evt, deadline, clock) == evt \/ clock >= deadline

\* lines 285-309: one pass of the body of the loop.  int(count * (60 /
\* elapsed_time)) is the integer quotient for the counts and times followed.
update_tasks_body(self, task, clock) ==
    LET current_time == clock
        elapsed_time == current_time - self.last_count_time
        messages_per_minute ==
            (self.message_count_per_interval * 60) \div elapsed_time
        rated ==
            IF elapsed_time > 0
            THEN [self EXCEPT
                     !.messages_per_minute = messages_per_minute,
                     !.msg_per_minute_sensor =
                         set_state(self.msg_per_minute_sensor, clock,
                                   str(messages_per_minute)).self,
                     !.message_count_per_interval = 0,
                     !.last_count_time = current_time]
            ELSE self
        due == current_time - task.last_availability_update
                   >= availability_interval
        sensors == self.sensors
    IN [hub |-> IF due /\ DOMAIN sensors # {}
                THEN [rated EXCEPT !.sensors =
                         [key \in DOMAIN sensors |->
                             update_availability(sensors[key], clock).self]]
                ELSE rated,
        last_availability_update |->
            IF due THEN current_time ELSE task.last_availability_update,
        due |-> due]

UpdateInit ==
    /\ ReaderInit
    /\ OrderIdle
    /\ FilterIdle /\ DecodeIdle /\ SerialIdle /\ TcpIdle
    /\ TaskIdle /\ ConfigIdle /\ InstIdle /\ BusIdle
    /\ sensor_now = 0
    /\ hub = [new_hub EXCEPT
                 !.msg_per_minute_sensor = defaults_in_seconds(@)]
    /\ sensor = new_sensor("0", TimeBetweenUpdates, <<>>, 0)
    /\ sensor_pc = "unregistered"
    /\ sensor_call = NoSensorCall
    /\ sensor_pub = NoPublication
    /\ update_task = NoTask
    /\ hub_log = NewHubLog

\* lines 435-448 and 279-284: the task is created and reaches its first wait
start ==
    /\ sensor_call = NoSensorCall
    /\ update_task.pc = "none"
    /\ update_task' = [pc |-> "waiting",
                       deadline |-> sensor_now + message_rate_interval,
                       last_availability_update |-> sensor_now]
    /\ UNCHANGED <<sensorvars, hub, hub_log>>
    /\ HubQuiet

\* lines 451-462; a second call changes nothing
stop ==
    /\ sensor_call = NoSensorCall
    /\ ~hub.stop_event
    /\ hub' = [hub EXCEPT !.stop_event = TRUE]
    /\ UNCHANGED <<sensorvars, update_task, hub_log>>
    /\ HubQuiet

\* lines 284-311: the wait is over; the loop runs its body and waits again,
\* or ends
update_tasks ==
    LET body == update_tasks_body(hub, update_task, sensor_now)
    IN /\ sensor_call = NoSensorCall
       /\ update_task.pc = "waiting"
       /\ wait_is_over(hub.stop_event, update_task.deadline, sensor_now)
       /\ IF ~event_wait(hub.stop_event)
          THEN /\ hub' = body.hub
               /\ update_task' =
                      [pc |-> "waiting",
                       deadline |-> sensor_now + message_rate_interval,
                       last_availability_update |->
                           body.last_availability_update]
               /\ hub_log' = [hub_log EXCEPT
                      !.rounds = @ + 1,
                      !.availability_rounds = IF body.due THEN @ + 1 ELSE @,
                      !.rounds_after_stop =
                          IF hub.stop_event THEN @ + 1 ELSE @]
          ELSE /\ update_task' = [update_task EXCEPT !.pc = "ended"]
               /\ UNCHANGED <<hub, hub_log>>
       /\ UNCHANGED sensorvars
       /\ HubQuiet

\* NMEA2000Sensor.py lines 128-133, for the Messages per minute sensor,
\* handed to async_add_entities at lines 265-269
RateSensorAdded ==
    /\ sensor_call = NoSensorCall
    /\ hub.async_add_entities
    /\ ~hub.msg_per_minute_sensor.ready
    /\ hub' = [hub EXCEPT !.msg_per_minute_sensor.ready = TRUE]
    /\ UNCHANGED <<sensorvars, update_task, hub_log>>
    /\ HubQuiet

UpdateReceive ==
    \E message \in UpdateMessages :
        /\ hub_log.messages < MaxCounted
        /\ receive(message)

\* how late the task runs after its timeout: at once, or, when the event
\* loop was kept busy or the wall clock was set forward, much later
Lateness == {0, availability_interval}

\* before Hub.start, time passes second by second; while the task waits,
\* up to the time it runs again
UpdateTick ==
    /\ sensor_call = NoSensorCall
    /\ \/ /\ update_task.pc = "none"
          /\ sensor_now < MaxDelay
          /\ sensor_now' = sensor_now + 1
       \/ /\ update_task.pc = "waiting"
          /\ ~hub.stop_event
          /\ hub_log.rounds < MaxRounds
          /\ sensor_now < update_task.deadline
          /\ \E late \in Lateness :
                 sensor_now' = update_task.deadline + late
    /\ UNCHANGED <<sensor, sensor_pc, sensor_call, sensor_pub>>
    /\ SensorQuiet

UpdateNext ==
    \/ register_async_add_entities \/ UpdateReceive
    \/ SensorOfHubAdded \/ RateSensorAdded
    \/ start \/ stop \/ update_tasks
    \/ SensorReturn \/ UpdateTick

SpecUpdate == UpdateInit /\ [][UpdateNext]_vars

\* the event loop runs a task whose wait is over, and a call returns
FairUpdate ==
    /\ SpecUpdate
    /\ WF_vars(update_tasks)
    /\ WF_vars(SensorReturn)

\* ------------------------------------------------------------------------
\* The last call, as the claims read it.  A call has returned and not yet
\* been forgotten exactly when frame # NoFrame; before holds the tables as
\* the call found them.
\* ------------------------------------------------------------------------
Called == frame # NoFrame

ArgSeqOf(data) == (data[Len(data)] \div 32) % 8

ArgPgn == frame.pgn
ArgData == frame.data
ArgLen == Len(frame.data)
ArgCtrl == frame.data[Len(frame.data)]
ArgFC == ArgCtrl % 32
ArgSeq == (ArgCtrl \div 32) % 8

HadEntry == ArgPgn \in DOMAIN before.fast_packet
OldEntry == before.fast_packet[ArgPgn]
HasEntry == ArgPgn \in DOMAIN fast_packet
NewEntry == fast_packet[ArgPgn]

\* the frames of an entry as a function from frame counter to payload
FrameMap(e) == [k \in DictKeys(e.frames) |-> DictGet(e.frames, k)]

OldFrames == FrameMap(OldEntry)
NewFrames == FrameMap(NewEntry)

\* the state "COLLECTING": a start frame is stored and bytes are still missing
Collecting(e) == 0 \in DictKeys(e.frames) /\ e.bytes_stored < e.payload_length

\* the payload portion of the frame just processed
ArgPayload ==
    IF ArgFC = 0 THEN Prefix(ArgData, ArgLen - 2) ELSE Prefix(ArgData, ArgLen - 1)

\* the payload length declared by the start frame of the frame's sequence
DeclaredLength ==
    IF ArgFC = 0 THEN ArgData[ArgLen - 1] ELSE OldEntry.payload_length

\* a start frame the gate admits and that carries a payload-length byte
AdmittedStart == ArgFC = 0 /\ gate = "admit" /\ ArgLen >= 2

\* a new frame of the sequence being collected
FreshContinuation ==
    /\ ArgFC # 0
    /\ HadEntry
    /\ Collecting(OldEntry)
    /\ ArgSeq = OldEntry.sequence_counter
    /\ ArgFC \notin DOMAIN OldFrames

\* the frames the entry holds once the frame just processed is stored
FramesWithArg ==
    IF ArgFC = 0 THEN (0 :> ArgPayload)
    ELSE [k \in DOMAIN OldFrames \cup {ArgFC} |->
            IF k = ArgFC THEN ArgPayload ELSE OldFrames[k]]

BytesWithArg ==
    IF ArgFC = 0 THEN Len(ArgPayload) ELSE OldEntry.bytes_stored + Len(ArgPayload)

RECURSIVE AscendingConcat(_, _)
AscendingConcat(f, keys) ==
    IF keys = {} THEN <<>>
    ELSE LET k == Min(keys) IN f[k] \o AscendingConcat(f, keys \ {k})

RECURSIVE DescendingConcat(_, _)
DescendingConcat(f, keys) ==
    IF keys = {} THEN <<>>
    ELSE LET k == Min(keys) IN DescendingConcat(f, keys \ {k}) \o f[k]

\* ------------------------------------------------------------------------
\* Claims
\* ------------------------------------------------------------------------

\* C1: an admitted frame-counter-0 frame followed in order by the remaining
\* frames of its sequence emits, at the frame with which the stored bytes
\* reach payload_length, exactly one combined payload and leaves the PGN
\* without an entry; a frame with another frame counter that finds no
\* sequence being collected emits nothing.
C1_CompletionEmitsOnce ==
    Called =>
        /\ ( /\ AdmittedStart \/ (FreshContinuation
                                  /\ DOMAIN OldFrames = 0..(ArgFC - 1))
             /\ BytesWithArg >= DeclaredLength )
           => (Len(out) = 1 /\ out[1].pgn = ArgPgn /\ ~HasEntry)
        /\ (ArgFC # 0 /\ ~(HadEntry /\ Collecting(OldEntry))) => out = <<>>

\* C2: for a sequence whose frame payloads sum to payload_length, delivering
\* frame 0 and then the remaining frames in any order emits what delivering
\* them in frame-counter order emits.
C2_OrderIndependent ==
    (ord_frames # <<>> /\ ord_a.todo = {} /\ ord_b.todo = {})
    => ord_a.emitted = ord_b.emitted

\* frames 0, 2, 1 delivered, frames 1 and 2 with different payloads
C2_Witness ==
    /\ ord_a.todo = {} /\ ord_b.todo = {}
    /\ ord_a.order = <<0, 1, 2>> /\ ord_b.order = <<0, 2, 1>>
    /\ Len(ord_b.emitted) = 1
    /\ ord_frames[2] = <<1, 2, ArgSeqOf(ord_frames[2]) * 32 + 1>>
    /\ ord_frames[3] = <<2, ArgSeqOf(ord_frames[3]) * 32 + 2>>
    /\ ord_b.emitted[1].hex = <<2, 1, 2>> \o Prefix(ord_frames[1], Len(ord_frames[1]) - 2)

\* C3 (as claimed): a frame-counter-0 frame with a different sequence counter
\* arriving while a sequence of its PGN is incomplete discards the old
\* partial state and starts the new sequence.
C3_RestartDiscards ==
    (Called /\ ArgFC = 0 /\ ArgLen >= 2 /\ HadEntry /\ Collecting(OldEntry)
        /\ ArgSeq # OldEntry.sequence_counter)
    => /\ HasEntry =>
            /\ NewFrames = (0 :> ArgPayload)
            /\ NewEntry.bytes_stored = Len(ArgPayload)
            /\ NewEntry.payload_length = ArgData[ArgLen - 1]
            /\ NewEntry.sequence_counter = ArgSeq
       /\ ~HasEntry => (Len(out) = 1 /\ out[1].hex = ArgPayload)

\* C3 (amended): such a frame discards the old partial state and starts the
\* new sequence exactly when the Throttle Gate admits it and it has at least
\* 2 data bytes; otherwise the old partial state stays as it was and nothing
\* is emitted.  No entry holds a frame counter outside 0..31.
C3_AdmittedRestartDiscards ==
    /\ (Called /\ ArgFC = 0 /\ HadEntry /\ Collecting(OldEntry)
            /\ ArgSeq # OldEntry.sequence_counter)
       => IF gate = "admit" /\ ArgLen >= 2
          THEN /\ HasEntry =>
                    /\ NewFrames = (0 :> ArgPayload)
                    /\ NewEntry.bytes_stored = Len(ArgPayload)
                    /\ NewEntry.payload_length = ArgData[ArgLen - 1]
                    /\ NewEntry.sequence_counter = ArgSeq
               /\ ~HasEntry => (Len(out) = 1 /\ out[1].hex = ArgPayload)
          ELSE fast_packet = before.fast_packet /\ out = <<>>
    /\ \A p \in DOMAIN fast_packet :
            /\ DictKeys(fast_packet[p].frames) \subseteq 0..31
            /\ Cardinality(DictKeys(fast_packet[p].frames)) <= 32

C3_Witness ==
    /\ Called /\ ArgFC = 0 /\ HadEntry /\ Collecting(OldEntry)
    /\ ArgSeq # OldEntry.sequence_counter
    /\ Cardinality(DOMAIN OldFrames) >= 2
    /\ gate = "admit" /\ ArgLen >= 2
    /\ HasEntry /\ DOMAIN NewFrames = {0}

\* C4: can_process returns true and records now exactly when the PGN has no
\* recorded acceptance or now - last[pgn] >= min_interval; otherwise it
\* returns false and leaves the table as it was.
C4_CanProcess ==
    (Called /\ ArgFC = 0) =>
        /\ gate \in {"admit", "reject"}
        /\ gate = "admit" <=>
              \/ ArgPgn \notin DOMAIN before.last_processed
              \/ now - before.last_processed[ArgPgn] >= MinInterval
        /\ gate = "admit" =>
              /\ DOMAIN last_processed = DOMAIN before.last_processed \cup {ArgPgn}
              /\ last_processed[ArgPgn] = now
              /\ \A p \in DOMAIN before.last_processed \ {ArgPgn} :
                    last_processed[p] = before.last_processed[p]
        /\ gate = "reject" => last_processed = before.last_processed

\* a start frame admitted the moment min_interval has elapsed since the
\* previous admitted one
C4_Witness ==
    /\ Called /\ ArgFC = 0 /\ gate = "admit"
    /\ ArgPgn \in DOMAIN before.last_processed
    /\ now - before.last_processed[ArgPgn] = MinInterval

\* C5: the Throttle Gate is consulted for frame-counter-0 frames only: a
\* frame with another frame counter neither reads nor changes the throttle
\* table, and when it is a new frame of the sequence being collected it is
\* stored however soon it arrives.
C5_GateOnlyForStart ==
    (Called /\ ArgFC # 0) =>
        /\ gate = "none"
        /\ last_processed = before.last_processed
        /\ FreshContinuation =>
              \/ HasEntry /\ ArgFC \in DOMAIN NewFrames
                          /\ NewFrames[ArgFC] = ArgPayload
              \/ ~HasEntry /\ Len(out) = 1

\* a continuation frame stored at the very instant its start frame was admitted
C5_Witness ==
    /\ Called /\ FreshContinuation
    /\ ArgPgn \in DOMAIN last_processed /\ last_processed[ArgPgn] = now
    /\ HasEntry /\ ArgFC \in DOMAIN NewFrames

\* C6 (as claimed): replaying a frame whose frame counter is already stored
\* for the sequence being collected changes nothing and emits nothing.
C6_ReplayNoOp ==
    (Called /\ HadEntry /\ Collecting(OldEntry)
        /\ ArgSeq = OldEntry.sequence_counter
        /\ ArgFC \in DOMAIN OldFrames
        /\ ArgPayload = OldFrames[ArgFC]
        /\ (ArgFC = 0 => (ArgLen >= 2 /\ ArgData[ArgLen - 1] = OldEntry.payload_length)))
    => (fast_packet = before.fast_packet /\ out = <<>>)

\* C6 (amended): replaying a stored frame is a no-op when its frame counter
\* is not 0, and when its frame counter is 0 and the Throttle Gate rejects it.
C6_ContinuationReplayNoOp ==
    (Called /\ HadEntry /\ Collecting(OldEntry)
        /\ ArgSeq = OldEntry.sequence_counter
        /\ ArgFC \in DOMAIN OldFrames
        /\ (ArgFC # 0 \/ gate = "reject"))
    => (fast_packet = before.fast_packet /\ out = <<>>)

C6_Witness ==
    /\ Called /\ HadEntry /\ Collecting(OldEntry)
    /\ ArgSeq = OldEntry.sequence_counter
    /\ ArgFC # 0 /\ ArgFC \in DOMAIN OldFrames
    /\ ArgPayload = OldFrames[ArgFC]
    /\ exit_line = ExitDuplicate

\* C7: a frame with frame counter # 0 whose sequence counter differs from
\* the one recorded in its PGN's entry is dropped: the reassembly table is
\* unchanged (so the frame is neither merged nor taken as a start) and
\* nothing is emitted.
C7_SequenceIsolation ==
    (Called /\ ArgFC # 0 /\ HadEntry /\ ArgSeq # OldEntry.sequence_counter)
    => (fast_packet = before.fast_packet /\ out = <<>>)

\* a frame of another sequence that would have completed the one collected
C7_Witness ==
    /\ Called /\ ArgFC # 0 /\ HadEntry /\ Collecting(OldEntry)
    /\ ArgSeq # OldEntry.sequence_counter
    /\ ArgFC \notin DOMAIN OldFrames
    /\ OldEntry.bytes_stored + Len(ArgPayload) >= OldEntry.payload_length

\* C8: a frame-counter-0 frame the Throttle Gate rejects changes nothing:
\* the reassembly table (the presence of the PGN's entry included) and the
\* throttle table are as they were before the call.
C8_RejectedNoChange ==
    (Called /\ ArgFC = 0 /\ gate = "reject")
    => /\ fast_packet = before.fast_packet
       /\ last_processed = before.last_processed

\* C9 (as claimed): the combined payload is the stored frame payloads
\* concatenated in ascending frame-counter order, frame 0's first.
C9_AscendingOrder ==
    (Called /\ out # <<>>)
    => out[1].hex = AscendingConcat(FramesWithArg, DOMAIN FramesWithArg)

\* C9 (amended): the stored frames are visited in ascending frame-counter
\* order and each is put in front of what was combined so far, so the
\* combined payload is the highest frame counter's payload first and
\* frame 0's last.
C9_DescendingOrder ==
    (Called /\ out # <<>>)
    => out[1].hex = DescendingConcat(FramesWithArg, DOMAIN FramesWithArg)

C9_Witness ==
    /\ Called /\ out # <<>>
    /\ Cardinality({k \in DOMAIN FramesWithArg : FramesWithArg[k] # <<>>}) >= 2
    /\ out[1].hex # AscendingConcat(FramesWithArg, DOMAIN FramesWithArg)

\* C10: every emitted payload has exactly payload_length bytes, the value
\* declared by the sequence's frame-counter-0 frame.
C10_EmittedLength ==
    (Called /\ out # <<>>) => Len(out[1].hex) = DeclaredLength

\* C12: process_fast_packet returns normally for every frame of at least 1
\* data byte in every reachable reassembly state; it never raises.
C12_NeverRaises ==
    Called => exit_line \notin {ExitRaise40, ExitRaise89}

\* the payloads an entry holds, in the order they were stored
StoredPayloads(e) == [i \in DOMAIN e.frames |-> e.frames[i][2]]

\* C13: the reassembly table holds one entry per PGN, and an entry holds at
\* most one payload per frame counter, every one of them in 0..31, so at
\* most 32 frames.
C13_BoundedState ==
    \A p \in DOMAIN fast_packet :
        LET frames == fast_packet[p].frames IN
        /\ DictKeys(frames) \subseteq 0..31
        /\ Cardinality(DictKeys(frames)) = Len(frames)
        /\ Len(frames) <= 32

\* a second sequence is started over an entry that holds every frame counter
\* of the first, and a frame of the second is stored
C13_Witness ==
    /\ Called /\ HadEntry /\ HasEntry
    /\ ArgFC # 0
    /\ OldEntry.sequence_counter = 1
    /\ Cardinality(DOMAIN NewFrames) = Cardinality(DOMAIN OldFrames) + 1
    /\ DOMAIN NewFrames = FrameCounters

\* C14: for every entry of the reassembly table, bytes_stored is the sum of
\* the byte lengths of the payloads in its frames.
C14_BytesStored ==
    \A p \in DOMAIN fast_packet :
        fast_packet[p].bytes_stored = SumLen(StoredPayloads(fast_packet[p]))

\* a non-empty payload is added to an entry that already holds a frame
C14_Witness ==
    /\ Called /\ FreshContinuation /\ HasEntry
    /\ ArgPayload # <<>>
    /\ NewEntry.bytes_stored = OldEntry.bytes_stored + Len(ArgPayload)
    /\ NewEntry.bytes_stored > 0

\* C15: an entry is created only by an admitted frame-counter-0 frame; a
\* frame with another frame counter that finds no entry for its PGN is
\* dropped and the table has no entry for that PGN afterward.
C15_EntryOnlyOnStart ==
    /\ (Called /\ ArgFC # 0 /\ ~HadEntry) => (~HasEntry /\ out = <<>>)
    /\ (Called /\ ~HadEntry /\ HasEntry) => AdmittedStart

\* the transport frame as the claims lay it out: where its type byte is
\* (0-based), and the values a decoder of that layout yields
LayoutAt == IF dec_input.transport = "serial" THEN 1 ELSE 0

LayoutType == dec_input.packet[LayoutAt + 1]

\* I0, I1, I2, I3
LayoutId == SubSeq(dec_input.packet, LayoutAt + 2, LayoutAt + 5)

\* the base-256 digits of the integer I3 I2 I1 I0, without leading zeros
RECURSIVE Digits(_)
Digits(s) == IF s # <<>> /\ Head(s) = 0 THEN Digits(Tail(s)) ELSE s

LayoutIdInt == Digits(<<LayoutId[4], LayoutId[3], LayoutId[2], LayoutId[1]>>)

\* D0.., the bytes between the id and the end of the frame
LayoutPayload ==
    LET p == dec_input.packet
        last == IF dec_input.transport = "serial" THEN Len(p) - 1 ELSE Len(p)
    IN IF last < LayoutAt + 6 THEN <<>> ELSE SubSeq(p, LayoutAt + 6, last)

LayoutData ==
    LET n == IF LayoutType % 16 < Len(LayoutPayload) THEN LayoutType % 16
             ELSE Len(LayoutPayload)
    IN [i \in 1..n |-> LayoutPayload[n + 1 - i]]

\* C16: decoding AA T I0 I1 I2 I3 D0..Dn 55 yields data_length = T & 0x0F,
\* frame_id_int = I3 I2 I1 I0 big-endian, source = frame_id_int & 0xFF,
\* pgn = (frame_id_int >> 8) & 0x3FFFF and data = the first data_length
\* payload bytes reversed; the fixed-length transport decodes the same
\* layout from byte 0 of its frame.
C16_Decode ==
    dec_result.done =>
        /\ Len(dec_result.frames) = 1
        /\ dec_result.frames[1].data_length = LayoutType % 16
        /\ dec_result.frames[1].frame_id_int = LayoutIdInt
        /\ dec_result.frames[1].source_id = LayoutId[1]
        /\ dec_result.frames[1].pgn_id =
              (LayoutId[4] * 65536 + LayoutId[3] * 256 + LayoutId[2]) % 262144
        /\ dec_result.frames[1].can_data = LayoutData

\* C17: every frame a decoder produces has pgn < 2^18, source < 2^8 and
\* between 0 and 8 data bytes.
C17_FrameRanges ==
    \A i \in DOMAIN dec_result.frames :
        /\ dec_result.frames[i].pgn_id \in 0..262143
        /\ dec_result.frames[i].source_id \in 0..255
        /\ Len(dec_result.frames[i].can_data) \in 0..8

\* The last pass of SerialSensor.read_loop, as the claims read it: the bytes
\* buffered when the inner loop began, and the frames the framing rule
\* finds in them
PassBytes == ser_call.before \o ser_call.data

\* the first position >= from at which s holds b, or 0
FirstAt(s, b, from) ==
    LET hits == {i \in from..Len(s) : s[i] = b}
    IN IF hits = {} THEN 0 ELSE Min(hits)

\* where the first frame of s begins and ends, or 0
FrameBegin(s) == FirstAt(s, AA, 1)
FrameEnd(s) == IF FrameBegin(s) = 0 THEN 0 ELSE FirstAt(s, EndByte, FrameBegin(s))

\* the frames of s, one after the other
RECURSIVE Delimited(_)
Delimited(s) ==
    IF FrameEnd(s) = 0 THEN <<>>
    ELSE <<SubSeq(s, FrameBegin(s), FrameEnd(s))>>
         \o Delimited(SubSeq(s, FrameEnd(s) + 1, Len(s)))

\* what is left of s after its frames
RECURSIVE Undelimited(_)
Undelimited(s) ==
    IF FrameEnd(s) = 0 THEN s
    ELSE Undelimited(SubSeq(s, FrameEnd(s) + 1, Len(s)))

AtLeast3(packet) == Len(packet) >= 3
AtLeast7(packet) == Len(packet) >= 7

\* C18: every frame forwarded to the decoder begins at the first 0xAA of
\* the buffer and ends at the first 0x55 at or after it; when a delimiter is
\* absent nothing is forwarded and the partial data stays buffered, at
\* every point of the read loop, the end of the stream included.
C18_Framing ==
    ser_call.state # "idle" =>
        /\ ser_call.forwarded = SelectSeq(Delimited(PassBytes), AtLeast3)
        /\ ser_buffer = Undelimited(PassBytes)

\* C20: a delimited frame of fewer than 3 bytes is not forwarded, one of
\* fewer than 7 bytes is forwarded and not decoded; both are removed from
\* the buffer, and the frames after them are delimited and decoded in the
\* same pass of the loop, which goes on reading.
C20_ShortFramesDropped ==
    ser_call.state = "read" =>
        LET frames == Delimited(PassBytes)
            decoded == SelectSeq(frames, AtLeast7)
        IN /\ \A i \in DOMAIN ser_call.forwarded :
                 Len(ser_call.forwarded[i]) >= 3
           /\ Len(ser_call.handed) = Len(decoded)
           /\ \A i \in DOMAIN decoded :
                 <<ser_call.handed[i]>> = SerialSensor_process_packet(decoded[i])
           /\ FrameEnd(ser_buffer) = 0
           /\ ser_buffer = Undelimited(PassBytes)

\* a frame of 3 bytes and then a frame of 10 bytes in one pass: the first is
\* dropped by the decoder, the second is decoded
C20_Witness ==
    /\ ser_call.state = "read"
    /\ Len(Delimited(PassBytes)) = 2
    /\ Len(Delimited(PassBytes)[1]) = 3
    /\ Len(Delimited(PassBytes)[2]) = 10
    /\ Len(ser_call.forwarded) = 2
    /\ Len(ser_call.handed) = 1
    /\ ser_buffer = <<>>

\* C19: the frames the fixed-length framer forwards depend on the byte
\* stream only, not on how the reads split it: the k-th frame (from 0) is
\* the 13 bytes at stream offsets 14k .. 14k+12, the byte at offset 14k+13
\* being discarded.
C19_ChunkingIndependent ==
    \A k \in DOMAIN tcp_forwarded :
        tcp_forwarded[k] = StreamBytes(14 * (k - 1), 13)

\* the elements of a list
Elements(list) == {list[i] : i \in DOMAIN list}

\* C11: is_pgn_allowed_based_on_lists returns (pgn in include) when include
\* is non-empty, whatever exclude holds; otherwise (pgn not in exclude) when
\* exclude is non-empty; otherwise true.
C11_FilterPrecedence ==
    allow_result # <<>> =>
        LET include == Elements(allow_args.pgn_include_list)
            exclude == Elements(allow_args.pgn_exclude_list)
        IN allow_result[1] =
              IF include # {} THEN allow_args.pgn \in include
              ELSE IF exclude # {} THEN allow_args.pgn \notin exclude
              ELSE TRUE

\* a PGN present in both lists is allowed
C11_Witness ==
    /\ allow_result = <<TRUE>>
    /\ allow_args.pgn \in Elements(allow_args.pgn_include_list)
    /\ allow_args.pgn \in Elements(allow_args.pgn_exclude_list)

\* ------------------------------------------------------------------------
\* The reader task (SpecTask, FairTask)
\* ------------------------------------------------------------------------
Attempting == task_pc \in {"connecting", "opening", "reading"}

PartlyFilled == \E pgn \in DOMAIN fast_packet : Collecting(fast_packet[pgn])

\* C21: whenever a new connection is opened after an earlier one, the
\* reassembly table and the throttle table are empty before the first frame
\* of the new connection is processed, and so the first frame of the new
\* connection is never added to a sequence begun on the old one.
C21_TablesEmptyOnReconnect ==
    /\ (task_pc = "reading" /\ task_log.reconnected /\ task_log.fresh)
          => (fast_packet = <<>> /\ last_processed = <<>>)
    /\ (Called /\ task_log.first_of_reconnect /\ ArgFC # 0)
          => exit_line \notin {ExitStored, ExitEmitted}

\* C22: once stop() has cancelled the reader task, at whichever await, the
\* task makes no further connection attempt, no frame is processed and no
\* payload emitted, and the task eventually ends.
C22_CancelTerminates ==
    /\ [](task_log.stopped => ~Attempting)
    /\ [](task_log.stopped => (~Called /\ out = <<>>))
    /\ (task_log.stopped ~> task_pc = "ended")

\* the task was cancelled and has ended with a sequence half collected,
\* which stays as it is
C22_Witness ==
    /\ task_log.stopped
    /\ task_pc = "ended"
    /\ PartlyFilled

\* C23: in tcp_read the retry delay starts at 1, is always one of 1, 2, 4,
\* 8, 16, 32, 60, is 1 after every successful connection, and between two
\* consecutive attempts the task sleeps the delay current at the end of the
\* first, after which that delay is doubled up to 60.
C23_TcpRetryDelay ==
    (task_kind = "tcp" /\ task_pc # "idle") =>
       /\ retry_delay \in {1, 2, 4, 8, 16, 32, 60}
       /\ task_pc = "reading" => retry_delay = 1
       /\ (task_pc = "connecting" /\ task_log.waited = -1) => retry_delay = 1
       /\ (task_pc = "connecting" /\ task_log.waited # -1) =>
             /\ task_log.waited = IF task_log.cycle_connected
                                  THEN 1 ELSE task_log.cycle_delay
             /\ retry_delay = IF task_log.waited * 2 < 60
                              THEN task_log.waited * 2 ELSE 60

\* a connection succeeded when the delay had reached the cap
C23_Witness ==
    /\ task_kind = "tcp"
    /\ task_pc = "reading"
    /\ task_log.cycle_delay = 60
    /\ retry_delay = 1

\* C24: in SerialSensor every loss of the connection (a failed open, an
\* error, the read loop ending) is followed by a wait before the next open
\* attempt; the wait is 5 s after the first failure, doubles after each
\* failure and never exceeds 60 s.
C24_SerialBackoff ==
    (task_kind = "serial" /\ task_pc = "opening" /\ task_log.waited # -1) =>
       /\ task_log.waited \in {5, 10, 20, 40, 60}
       /\ (~task_log.cycle_connected /\ task_log.failures = 1)
             => task_log.waited = 5

\* ------------------------------------------------------------------------
\* The PGN lists of the configuration (SpecConfig)
\* ------------------------------------------------------------------------
\* the tokens of a text are its maximal pieces without a comma
TokenStarts(t) == {1} \cup {i + 1 : i \in {j \in DOMAIN t : t[j] = ","}}

TokenEnd(t, a) ==
    LET commas == {j \in DOMAIN t : t[j] = "," /\ j >= a}
    IN IF commas = {} THEN Len(t) ELSE Min(commas) - 1

Token(t, a) == IF TokenEnd(t, a) < a THEN <<>> ELSE SubSeq(t, a, TokenEnd(t, a))

Inked(tok) == {i \in DOMAIN tok : tok[i] # " "}

BlankToken(tok) == Inked(tok) = {}

IntegerToken(tok) ==
    /\ ~BlankToken(tok)
    /\ \A i \in DOMAIN tok :
          (\E a, b \in Inked(tok) : a <= i /\ i <= b) => tok[i] \in {"0", "1", "2", "3", "4", "5", "6", "7", "8", "9"}

RECURSIVE DecimalValue(_)
DecimalValue(digits) ==
    IF digits = <<>> THEN 0
    ELSE DecimalValue(SubSeq(digits, 1, Len(digits) - 1)) * 10
         + digit_value[digits[Len(digits)]]

TokenValue(tok) == DecimalValue([i \in 1..Cardinality(Inked(tok)) |->
                                    tok[SortedSeq(Inked(tok))[i]]])

HasInvalid(t) ==
    \E a \in TokenStarts(t) :
        ~BlankToken(Token(t, a)) /\ ~IntegerToken(Token(t, a))

IntTokens(t) ==
    LET starts == SortedSeq({a \in TokenStarts(t) : ~BlankToken(Token(t, a))})
    IN [i \in DOMAIN starts |-> TokenValue(Token(t, starts[i]))]

FieldInvalid(field) == field # <<>> /\ HasInvalid(field[1])

\* C25: for a PGN include or exclude string, blank entries are ignored and
\* every integer token is returned in order; a non-integer token is a
\* configuration error: a parse does not return a list, the config flow
\* and the options flow report pgn_not_valid and neither create nor update
\* the entry, and neither setup goes on with a list.
C25_InvalidTokenIsError ==
    cfg_result.done =>
       /\ cfg_call.op \in ParseOps =>
             IF HasInvalid(cfg_call.pgn_include[1])
             THEN cfg_result.raised
             ELSE /\ ~cfg_result.raised
                  /\ cfg_result.value = IntTokens(cfg_call.pgn_include[1])
       /\ (/\ cfg_call.op \in FlowOps
           /\ FieldInvalid(cfg_call.pgn_include)
              \/ FieldInvalid(cfg_call.pgn_exclude))
          => /\ "pgn_not_valid" \in {cfg_result.errors.pgn_include,
                                     cfg_result.errors.pgn_exclude}
             /\ ~cfg_result.written
       /\ (/\ cfg_call.op \in {"sensor.async_setup_entry", "Hub.__init__"}
           /\ FieldInvalid(cfg_call.pgn_include)
              \/ FieldInvalid(cfg_call.pgn_exclude))
          => ~cfg_result.proceeded

\* ------------------------------------------------------------------------
\* Several instances (SpecInstances)
\* ------------------------------------------------------------------------
TablesOf(data, name) ==
    <<data[fast_packet_key(name)], data[smart2000timestamp_key(name)]>>

\* C26: a frame processed for one instance leaves the reassembly table and
\* the throttle table of every instance of another name as they were.
C26_InstanceIsolation ==
    inst_call # NoInstCall =>
       \A other \in inst_names \ {inst_call.name} :
           TablesOf(hass_data, other) = TablesOf(inst_call.before, other)

\* a call changed the tables of its own instance while the other instance
\* was collecting a sequence
C26_Witness ==
    /\ inst_call # NoInstCall
    /\ TablesOf(hass_data, inst_call.name)
          # TablesOf(inst_call.before, inst_call.name)
    /\ \E other \in inst_names \ {inst_call.name} :
          \E pgn \in DOMAIN hass_data[fast_packet_key(other)] :
              Collecting(hass_data[fast_packet_key(other)][pgn])

\* the messages whose bytes a payload holds
MessagesIn(hex) == {MessageOfByte(hex[i]) : i \in DOMAIN hex}

SourcesIn(hex) == {MessageOfByte(hex[i])[1] : i \in DOMAIN hex}

StoredOrEmitted == exit_line \in {ExitStored, ExitEmitted}

\* C27: the entry is found by PGN alone, so a frame of another source whose
\* sequence counter matches and whose frame counter is new is stored into
\* the sequence being collected, an admitted start frame of another source
\* replaces it, and a payload that is emitted holds every frame stored,
\* whichever source sent it.
C27_SourcesShareEntry ==
    /\ (Called /\ FreshContinuation
          /\ SourcesIn(ArgPayload) # SourcesIn(OldFrames[0]))
         => /\ StoredOrEmitted
            /\ exit_line = ExitStored => NewFrames = FramesWithArg
            /\ exit_line = ExitEmitted
                 => MessagesIn(out[1].hex)
                      = UNION {MessagesIn(FramesWithArg[k]) :
                                 k \in DOMAIN FramesWithArg}
    /\ (Called /\ AdmittedStart /\ HadEntry /\ Collecting(OldEntry)
          /\ SourcesIn(ArgPayload) # SourcesIn(OldFrames[0]))
         => NewFrames = (0 :> ArgPayload)

\* a payload made of frames of both sources is emitted
C27_Witness ==
    /\ Called
    /\ FreshContinuation
    /\ exit_line = ExitEmitted
    /\ SourcesIn(out[1].hex) = BusSources

\* C28: a frame with frame counter # 0 that is stored belongs to the message
\* whose frame 0 started the entry, and no continuation frame of a message
\* whose frame 0 the throttle gate rejected during a collection is stored.
C28_StoredFrameOfSameMessage ==
    /\ (Called /\ ArgFC # 0 /\ StoredOrEmitted)
         => MessagesIn(ArgPayload) = MessagesIn(OldFrames[0])
    /\ (Called /\ ArgFC # 0 /\ MessagesIn(ArgPayload) \subseteq bus_rejected)
         => ~StoredOrEmitted

\* C29: when a payload is emitted, the frame counters the entry holds are
\* 0..k with no counter missing.
C29_NoGapAtEmission ==
    (Called /\ exit_line = ExitEmitted)
      => \A k \in DOMAIN FramesWithArg :
           \A j \in 0..k : j \in DOMAIN FramesWithArg

SensorCalled == sensor_call.op \in {"set_state", "update_availability"}

\* C30: set_state and update_availability on a sensor that is not ready
\* change no field of it (native value, last-seen time, last-updated time,
\* availability) and schedule no publication.
C30_NotReadyChangesNothing ==
    (SensorCalled /\ ~sensor_call.before.ready)
      => (sensor = sensor_call.before /\ ~sensor_call.scheduled)

\* set_state with a new value reaches an unavailable sensor whose
\* async_added_to_hass has not finished, after update_frequncy has passed
C30_Witness ==
    /\ sensor_call.op = "set_state"
    /\ sensor_pc = "adding"
    /\ ~sensor_call.before.ready
    /\ ~sensor_call.before.available
    /\ sensor_call.new_state # sensor_call.before.native_value
    /\ sensor_now - sensor_call.before.last_updated >= sensor.update_frequncy

SetStateOnReady == sensor_call.op = "set_state" /\ sensor_call.before.ready

\* update_frequncy has passed since _last_updated
FrequencyMet ==
    sensor_now - sensor_call.before.last_updated
        >= sensor_call.before.update_frequncy

\* C31: set_state on a ready sensor records the value and the last-seen
\* time; it schedules a publication exactly when it makes the sensor
\* available, or update_frequncy has passed and the value differs from the
\* one before; and a publication of a sensor that was published available
\* and is still available comes at least update_frequncy after that one.
C31_PublicationRule ==
    /\ SetStateOnReady
         => /\ sensor.native_value = sensor_call.new_state
            /\ sensor.last_seen = sensor_now
            /\ sensor_call.scheduled
                 <=> \/ ~sensor_call.before.available
                     \/ /\ FrequencyMet
                        /\ sensor_call.new_state # sensor_call.before.native_value
    /\ (SetStateOnReady /\ sensor_call.scheduled
          /\ sensor_call.before.available
          /\ sensor_call.published.at >= 0 /\ sensor_call.published.available)
         => sensor_now - sensor_call.published.at >= sensor.update_frequncy

AvailabilityOnReady ==
    sensor_call.op = "update_availability" /\ sensor_call.before.ready

\* the time since the sensor last saw a value has reached its ttl
Expired == sensor_now - sensor_call.before.last_seen >= sensor_call.before.ttl

\* C34: the ttl of a sensor is 10 times the ttl of its message, and
\* INFINITE_DURATION when the message has none; update_availability on a
\* ready, available sensor marks it unavailable and schedules a publication
\* exactly when the time since it last saw a value is at least its ttl, and
\* otherwise leaves it available and schedules nothing.
C34_UnavailableAtTtl ==
    /\ sensor_pc # "none"
         => sensor.ttl \in {INFINITE_DURATION}
                             \cup {10 * ttl[1] : ttl \in Ttls \ {<<>>}}
    /\ (AvailabilityOnReady /\ sensor_call.before.available)
         => /\ ~sensor.available <=> Expired
            /\ sensor_call.scheduled <=> Expired
            /\ sensor.last_seen = sensor_call.before.last_seen

\* the ttl runs out exactly at the call, and the sensor is marked unavailable
C34_Witness ==
    /\ AvailabilityOnReady
    /\ sensor_call.before.available
    /\ sensor_now - sensor_call.before.last_seen = sensor_call.before.ttl
    /\ ~sensor.available
    /\ sensor_call.scheduled

\* C35: update_availability never turns an unavailable sensor available.
C35_NeverTurnsAvailable ==
    (sensor_call.op = "update_availability" /\ ~sensor_call.before.available)
      => ~sensor.available

\* the sensor is ready, the value it holds is not the one it published last,
\* and update_frequncy has passed since _last_updated
ChangeDue ==
    /\ sensor_pc # "none"
    /\ sensor_call = NoSensorCall
    /\ sensor.ready
    /\ sensor_pub.at >= 0
    /\ sensor_pub.native_value # sensor.native_value
    /\ sensor_now - sensor.last_updated >= sensor.update_frequncy

\* C32: when the value of a ready sensor has changed from the one published
\* and update_frequncy has passed, the new value is eventually published,
\* unless another value is reported or the sensor is removed first.
C32_ChangeIsPublished ==
    \A w \in States :
        (ChangeDue /\ sensor.native_value = w)
          ~> \/ sensor_pub.native_value = w
             \/ sensor.native_value # w
             \/ ~sensor.ready

\* the state the claim gives for a status
ClaimedState(status) ==
    CASE status = "CONNECTED" -> "Running"
      [] status = "DISCONNECTED" -> "Disconnected"
      [] OTHER -> "Unknown"

\* C33: when every status callback so far reached a ready State sensor, the
\* state last scheduled for publication is the one of the latest status.
C33_StatusIsPublished ==
    (hub_log.status # "" /\ hub_log.all_ready)
      => /\ sensor_pub.at >= 0
         /\ sensor_pub.native_value = ClaimedState(hub_log.status)

\* C36: the value of the Total message count sensor is the number of
\* messages receive_callback has processed since async_add_entities was
\* registered, and a message that arrives before that changes nothing.
C36_TotalCountsEveryMessage ==
    /\ hub_log # NoHubLog
         => digit_value[sensor.native_value] = hub_log.processed
    /\ (hub_log # NoHubLog /\ ~hub.async_add_entities)
         => /\ hub_log.processed = 0
            /\ hub = new_hub
            /\ sensor.native_value = "0"

\* how many sensors were constructed with this id
Constructed(key) ==
    Cardinality({i \in DOMAIN hub_log.created : hub_log.created[i] = key})

\* C37: receive_callback constructs at most one sensor per sensor id, and
\* the ids of self.sensors are exactly the ids constructed: an entry is
\* made when its sensor is constructed and is never made again or removed.
C37_OneSensorPerId ==
    hub_log # NoHubLog
      => /\ \A key \in DOMAIN hub.sensors : Constructed(key) = 1
         /\ DOMAIN hub.sensors
              = {hub_log.created[i] : i \in DOMAIN hub_log.created}

\* a third message of one id reaches the hub: its sensors exist already
C37_Witness ==
    /\ hub_log # NoHubLog
    /\ hub_log.processed = 3
    /\ Len(hub_log.created) = 2

\* C38: after a read is processed the fixed-length framer holds fewer than
\* 13 bytes, and the delimiter-bounded framer does not fill up with bytes
\* that hold no frame: a buffer without a start delimiter stays below the
\* largest size followed here.
C38_BuffersBounded ==
    /\ Len(tcp_buffer) < 13
    /\ (ser_call = NoPass /\ \A i \in DOMAIN ser_buffer : ser_buffer[i] # AA)
         => Len(ser_buffer) < MaxBuffer

\* C39: after Hub.stop has set stop_event the loop of update_tasks ends at
\* its next wait, with no further message-rate calculation or availability
\* update; and the loop never ends while stop_event is not set.
RoundOfTheLoop == hub_log'.rounds # hub_log.rounds

C39_StopEndsTheLoop ==
    /\ [](update_task.pc = "ended" => hub.stop_event)
    /\ [][(hub.stop_event /\ update_task.pc # "none") =>
             /\ ~RoundOfTheLoop
             /\ hub'.messages_per_minute = hub.messages_per_minute
             /\ hub'.last_count_time = hub.last_count_time
             /\ update_task'.last_availability_update
                    = update_task.last_availability_update
             /\ update_task'.pc \in {update_task.pc, "ended"}]_vars
    /\ (hub.stop_event /\ update_task.pc = "waiting")
           ~> (update_task.pc = "ended")

\* the loop has run its body, an availability update included, messages
\* were counted, and the loop ended after stop
C39_Witness ==
    /\ update_task.pc = "ended"
    /\ hub.stop_event
    /\ hub_log.availability_rounds > 0
    /\ hub.messages_per_minute > 0

TypeOK ==
    /\ DOMAIN fast_packet \subseteq PGNs
    /\ DOMAIN last_processed \subseteq PGNs
    /\ now \in 0..MaxTime
    /\ Len(out) <= 1
====
